---- MODULE Spec2Model ----
(***************************************************************************)
(* Model of ankify's AnkiConnect client (src/ankify/anki.py): the retry    *)
(* loop of send_request, the deck cache of ensure_deck_created and the     *)
(* create-or-update protocol of create_or_update_card, run by coroutines   *)
(* of one event loop against a remote AnkiConnect server.                  *)
(*                                                                         *)
(* A coroutine is suspended only while it awaits a network round-trip or   *)
(* asyncio.sleep, so one action is the code between two such awaits.       *)
(***************************************************************************)
EXTENDS Integers, Sequences, FiniteSets, TLC

None == "None"

\* ---------------------------------------------------------------- bounds
NumTasks == 2      \* coroutines sharing one AnkiConnect instance
MaxCalls == 3      \* sequential run: create_or_update_card calls started
MaxFaults == 3     \* sequential run: failed attempts (transport, bad answer)
ConcCalls == 2     \* concurrent run: create_or_update_card calls started
ConcFaults == 1    \* concurrent run: failed attempts
MaxSections == 2   \* main.py: sections (heading, question, answer) of a file
MaxBody == 3       \* main.py: lines of a block body that mixes fence lines
MaxRuns == 2       \* main.py: process_file runs over one file
MaxErrors == 1     \* main.py: requests of a run sequence the remote fails
MaxLimit == 2      \* main.py: the values of --limit (0: not given)
MaxRetriesArg == 3 \* send_request: the values of a retries argument (from 0)

\* ------------------------------------------------------ program constants
max_retries == 3
retry_delay == 1
default_version == 6

Tasks == 1..NumTasks
CardIds == {"x", "y"}
DeckNames == {"A", "B"}

\* markdown_to_html renders the text to HTML; the rendering is never the
\* text itself.
markdown_to_html(text) == <<"html", text>>

MkCard(i, d, q, tg) ==
    [id |-> i, deck_name |-> d, obsidian_url |-> None,
     question |-> q, answer |-> "a", tags |-> tg]

\* The cards a caller may pass: a card, the same id with edited text and
\* tags under another heading, and a second id.
Cards ==
    { MkCard("x", "A", "q1", <<>>), MkCard("x", "B", "q2", <<"t">>),
      MkCard("y", "A", "q1", <<>>) }

\* ----------------------------------------------------- request payloads
\* A variant that lets the remote store duplicates
to_anki_create_allow_duplicate(card) ==
    [deckName |-> card.deck_name,
     modelName |-> "ObsidianCard",
     fields |-> [id |-> card.id,
                 question |-> markdown_to_html(card.question),
                 answer |-> markdown_to_html(card.answer),
                 comments |-> "",
                 obsidian_url |-> IF card.obsidian_url = None THEN ""
                                  ELSE card.obsidian_url],
     options |-> [allowDuplicate |-> TRUE, duplicateScope |-> "deck"],
     tags |-> card.tags]

to_anki_create(card) ==
    [deckName |-> card.deck_name,
     modelName |-> "ObsidianCard",
     fields |-> [id |-> card.id,
                 question |-> markdown_to_html(card.question),
                 answer |-> markdown_to_html(card.answer),
                 comments |-> "",
                 obsidian_url |-> IF card.obsidian_url = None THEN ""
                                  ELSE card.obsidian_url],
     options |-> [allowDuplicate |-> FALSE, duplicateScope |-> "deck"],
     tags |-> card.tags]

\* A variant that sends every field of the note type, comments included
to_anki_update_all_fields(card, anki_id) ==
    [id |-> anki_id,
     fields |-> [question |-> markdown_to_html(card.question),
                 answer |-> markdown_to_html(card.answer),
                 comments |-> ""],
     tags |-> card.tags]

to_anki_update(card, anki_id) ==
    [id |-> anki_id,
     fields |-> [question |-> markdown_to_html(card.question),
                 answer |-> markdown_to_html(card.answer)],
     tags |-> card.tags]

_prepare_request_data(data) ==
    [k \in (DOMAIN data) \cup {"version"} |->
        IF k \in DOMAIN data THEN data[k] ELSE default_version]

\* ------------------------------------------------------ response checking
\* A variant that does not count the fields of the response
_validate_response_uncounted(response_data) ==
    IF "error" \notin DOMAIN response_data
        THEN "Response is missing required error field"
    ELSE IF "result" \notin DOMAIN response_data
        THEN "Response is missing required result field"
    ELSE IF response_data["error"] # None
        THEN response_data["error"]
    ELSE None

\* The message of the exception _validate_response raises, None when it
\* returns normally.
_validate_response(response_data) ==
    IF Cardinality(DOMAIN response_data) # 2
        THEN "Response has an unexpected number of fields"
    ELSE IF "error" \notin DOMAIN response_data
        THEN "Response is missing required error field"
    ELSE IF "result" \notin DOMAIN response_data
        THEN "Response is missing required result field"
    ELSE IF response_data["error"] # None
        THEN response_data["error"]
    ELSE None


\* ------------------------------------------------------------ the remote
\* The AnkiConnect server at anki_connect_url, as far as the requests of this
\* client exercise it.  A note is [deck, fields, tags]; its note id is its
\* position in notes.
NoteFields == {"id", "question", "answer", "comments", "obsidian_url"}

RECURSIVE SortedSeq(_)
SortedSeq(S) ==
    IF S = {} THEN <<>>
    ELSE LET m == CHOOSE x \in S : \A y \in S : x <= y
         IN <<m>> \o SortedSeq(S \ {m})

\* findNotes with the query "<field>:<value>"
RemoteFindNotes(nt, query) ==
    SortedSeq({i \in 1..Len(nt) : nt[i].fields[query[1]] = query[2]})

\* addNote refuses a note whose first field (id, the first of inOrderFields)
\* duplicates one in scope unless the request allows duplicates.
IsDuplicate(nt, note) ==
    /\ ~note.options.allowDuplicate
    /\ \E i \in 1..Len(nt) :
          /\ nt[i].fields["id"] = note.fields["id"]
          /\ (note.options.duplicateScope = "deck" => nt[i].deck = note.deckName)

RemoteAddNote(dk, nt, note) ==
    IF IsDuplicate(nt, note)
    THEN [decks |-> dk, notes |-> nt, result |-> None,
          error |-> "cannot create note because it is a duplicate"]
    ELSE [decks |-> dk,
          notes |-> Append(nt, [deck |-> note.deckName, fields |-> note.fields,
                                tags |-> note.tags]),
          result |-> Len(nt) + 1, error |-> None]

\* updateNote overwrites exactly the fields named in the request, and the tags
RemoteUpdateNote(dk, nt, note) ==
    IF note.id \notin 1..Len(nt)
    THEN [decks |-> dk, notes |-> nt, result |-> None,
          error |-> "Note was not found"]
    ELSE [decks |-> dk,
          notes |-> [nt EXCEPT ![note.id] =
                       [@ EXCEPT !.fields =
                            [k \in NoteFields |->
                                IF k \in DOMAIN note.fields THEN note.fields[k]
                                ELSE @[k]],
                                 !.tags = note.tags]],
          result |-> None, error |-> None]

RemoteApply(req, dk, nt) ==
    CASE req.action = "deckNames" ->
            [decks |-> dk, notes |-> nt, result |-> dk, error |-> None]
      [] req.action = "createDeck" ->
            [decks |-> dk \cup {req.params.deck}, notes |-> nt,
             result |-> 1, error |-> None]
      [] req.action = "findNotes" ->
            [decks |-> dk, notes |-> nt,
             result |-> RemoteFindNotes(nt, req.params.query), error |-> None]
      [] req.action = "addNote" -> RemoteAddNote(dk, nt, req.params.note)
      [] req.action = "updateNote" -> RemoteUpdateNote(dk, nt, req.params.note)

\* What the body of the HTTP answer can look like.  "ok" is AnkiConnect's
\* {result, error}; "failed" is an error the server reports without having
\* applied the request; the others are answers of another shape.
Shapes == {"ok", "failed", "extra", "no_result", "renamed"}

ResponseOf(shape, out) ==
    CASE shape = "ok"        -> [result |-> out.result, error |-> out.error]
      [] shape = "failed"    -> [result |-> None, error |-> "internal error"]
      [] shape = "extra"     -> [result |-> out.result, error |-> out.error,
                                 extra |-> None]
      [] shape = "no_result" -> [error |-> out.error]
      [] shape = "renamed"   -> [result |-> out.result, err |-> out.error]


\* ------------------------------------------------------------- the state
VARIABLES
    decks,           \* remote: the deck names that exist
    notes,           \* remote: the notes, note id = position
    existing_decks,  \* AnkiConnect.existing_decks
    tasks,           \* per coroutine: where it is suspended and its locals
    hist,            \* what has been sent and answered so far
    file,            \* main.py: the lines of the markdown file on disk
    run,             \* main.py: the process_file run and where it stands
    tool,            \* the model-template check and the MCP tool: where they stand
    scan,            \* main.py: the scanning loop of parse_markdown_file
    send             \* a direct call of send_request: its locals

anki_vars == <<decks, notes, existing_decks, tasks, hist>>
main_vars == <<file, run>>
tool_vars == <<tool>>
scan_vars == <<scan>>
send_vars == <<send>>
vars ==
    <<decks, notes, existing_decks, tasks, hist, file, run, tool, scan, send>>

\* An Optional value is a sequence of length 0 (None) or 1.
Nothing == <<>>
Some(v) == <<v>>

IdleTask ==
    [pc |-> "idle", card |-> None, call |-> 0, req |-> None,
     retries |-> 0, attempt |-> 0, net |-> "none", resp |-> None,
     applied |-> FALSE, last_exception |-> Nothing,
     validated |-> Nothing, accepted |-> FALSE,
     deck_ret |-> Nothing, note_ids |-> Nothing, anki_id |-> Nothing,
     result |-> Nothing,
     exc |-> Nothing, failed_at |-> None, trace |-> <<>>,
     pre_ensured |-> FALSE]

Sites == {"deckNames", "createDeck", "findNotes", "addNote", "updateNote"}
Running(t) == tasks[t].pc \in Sites

\* A client state: one coroutine's locals with the instance state it shares.
ClientState(t) == [task |-> tasks[t], cache |-> existing_decks, hist |-> hist]

Event(cs, kind, what) ==
    [cs EXCEPT !.task.trace = Append(@, <<kind, what>>)]

\* ------------------------------------------------------------ send_request
\* session.post of one attempt: the coroutine is suspended until an answer
\* or a transport error arrives.
_make_request(cs) ==
    Event([cs EXCEPT !.task.net = "wait", !.task.resp = None],
          "send", cs.task.req.action)

\* Entry of send_request up to its first await.  Every call site of
\* create_or_update_card passes no retries argument, so retries is
\* max_retries and the loop body runs at least once.
send_request(cs, data) ==
    _make_request([cs EXCEPT !.task.pc = data.action,
                             !.task.req = _prepare_request_data(data),
                             !.task.retries = max_retries,
                             !.task.attempt = 0,
                             !.task.applied = FALSE,
                             !.task.last_exception = Nothing])

\* A variant in which ensure_deck_created swallows its exception, so that
\* create_or_update_card goes on to the lookup
create_or_update_card_raise_swallowed(cs, e) ==
    IF cs.task.pc \in {"deckNames", "createDeck"}
    THEN send_request(Event(cs, "raise", e.msg),
                      [action |-> "findNotes",
                       params |-> [query |-> <<"id", cs.task.card.id>>]])
    ELSE Event([cs EXCEPT !.task.failed_at = cs.task.pc,
                          !.task.pc = "raised",
                          !.task.net = "none",
                          !.task.exc = Some(e),
                          !.hist.finished[cs.task.card.id] = @ + 1],
               "raise", e.msg)

\* create_or_update_card's except clause (also reached through the except
\* clauses of ensure_deck_created and get_anki_id_by_card_id, which re-raise)
create_or_update_card_raise(cs, e) ==
    Event([cs EXCEPT !.task.failed_at = cs.task.pc,
                     !.task.pc = "raised",
                     !.task.net = "none",
                     !.task.exc = Some(e),
                     !.hist.finished[cs.task.card.id] = @ + 1],
          "raise", e.msg)

create_or_update_card_return(cs, value) ==
    Event([cs EXCEPT !.task.pc = "returned",
                     !.task.net = "none",
                     !.task.result = Some(value),
                     !.hist.finished[cs.task.card.id] = @ + 1],
          "return", "create_or_update_card")

\* A variant that remembers the first exception instead of the last
send_request_except_first(cs, msg) ==
    LET e == [msg |-> msg, attempt |-> cs.task.attempt]
        c1 == [cs EXCEPT !.task.last_exception =
                             IF @ = Nothing THEN Some(e) ELSE @,
                         !.task.attempt = @ + 1,
                         !.task.resp = None]
    IN  IF cs.task.attempt < cs.task.retries - 1
        THEN [c1 EXCEPT !.task.net = "sleep"]
        ELSE create_or_update_card_raise(c1, c1.task.last_exception[1])

\* The except clause of the retry loop: remember the exception, sleep when
\* attempts remain, otherwise leave the loop and raise the remembered one.
send_request_except(cs, msg) ==
    LET e == [msg |-> msg, attempt |-> cs.task.attempt]
        c1 == [cs EXCEPT !.task.last_exception = Some(e),
                         !.task.attempt = @ + 1,
                         !.task.resp = None]
    IN  IF cs.task.attempt < cs.task.retries - 1
        THEN [c1 EXCEPT !.task.net = "sleep"]
        ELSE create_or_update_card_raise(c1, c1.task.last_exception[1])

\* -------------------------------------------------- create_or_update_card
after_addNote(cs, result) == create_or_update_card_return(cs, result)

after_updateNote(cs, result) ==
    create_or_update_card_return(cs, cs.task.anki_id[1])

\* A variant that takes the first match when several notes carry the id
after_findNotes_first_match(cs, note_ids) ==
    LET c1 == [cs EXCEPT !.task.note_ids = Some(note_ids)]
        card == cs.task.card
    IN  IF Len(note_ids) = 0
        THEN send_request(
                [c1 EXCEPT !.hist.addNoteCalls[card.id] = @ + 1],
                [action |-> "addNote",
                 params |-> [note |-> to_anki_create(card)]])
        ELSE send_request(
                [c1 EXCEPT !.task.anki_id = Some(note_ids[1]),
                           !.hist.updateNoteCalls[card.id] = @ + 1],
                [action |-> "updateNote",
                 params |-> [note |-> to_anki_update(card, note_ids[1])]])

\* get_anki_id_by_card_id after findNotes answered, and the branch of
\* create_or_update_card on its value
after_findNotes(cs, note_ids) ==
    LET c1 == [cs EXCEPT !.task.note_ids = Some(note_ids)]
        card == cs.task.card
    IN  IF Len(note_ids) = 0
        THEN send_request(
                [c1 EXCEPT !.hist.addNoteCalls[card.id] = @ + 1],
                [action |-> "addNote",
                 params |-> [note |-> to_anki_create(card)]])
        ELSE IF Len(note_ids) > 1
        THEN create_or_update_card_raise(
                c1, [msg |-> "Found multiple notes", attempt |-> 0])
        ELSE send_request(
                [c1 EXCEPT !.task.anki_id = Some(note_ids[1]),
                           !.hist.updateNoteCalls[card.id] = @ + 1],
                [action |-> "updateNote",
                 params |-> [note |-> to_anki_update(card, note_ids[1])]])

\* A variant that looks the note up by its visible text instead of its id
get_anki_id_by_question(cs) ==
    send_request(cs, [action |-> "findNotes",
                      params |-> [query |-> <<"question",
                                    markdown_to_html(cs.task.card.question)>>]])

get_anki_id_by_card_id(cs) ==
    send_request(cs, [action |-> "findNotes",
                      params |-> [query |-> <<"id", cs.task.card.id>>]])

\* ensure_deck_created returns `created`; create_or_update_card goes on
ensure_deck_created_return(cs, created) ==
    get_anki_id_by_card_id(
        Event([cs EXCEPT !.task.deck_ret = Some(created),
                         !.hist.ensured = @ \cup {cs.task.card.deck_name}],
              "return", "ensure_deck_created"))

after_createDeck(cs, result) ==
    ensure_deck_created_return(
        [cs EXCEPT !.cache = @ \cup {cs.task.card.deck_name}], TRUE)

\* ensure_deck_created from "Check if the deck already exists" on
deck_check(cs) ==
    LET d == cs.task.card.deck_name
    IN  IF d \in cs.cache
        THEN ensure_deck_created_return(cs, FALSE)
        ELSE send_request(
                [cs EXCEPT !.hist.creators[d] = @ \cup {cs.task.call}],
                [action |-> "createDeck", params |-> [deck |-> d]])

\* A variant that does not keep the listing of deckNames
after_deckNames_dropped(cs, existing) ==
    deck_check([cs EXCEPT !.hist.listed = @ \cup existing])

after_deckNames(cs, existing) ==
    deck_check([cs EXCEPT !.cache = IF existing # {} THEN existing ELSE @,
                          !.hist.listed = @ \cup existing])

ensure_deck_created(cs) ==
    IF Cardinality(cs.cache) <= 0
    THEN send_request(cs, [action |-> "deckNames"])
    ELSE deck_check(cs)

\* send_request returns `result` to the call site the coroutine is at
Resume(cs, result) ==
    LET c1 == Event([cs EXCEPT !.task.net = "none"], "return", cs.task.pc)
    IN  CASE cs.task.pc = "deckNames"  -> after_deckNames(c1, result)
          [] cs.task.pc = "createDeck" -> after_createDeck(c1, result)
          [] cs.task.pc = "findNotes"  -> after_findNotes(c1, result)
          [] cs.task.pc = "addNote"    -> after_addNote(c1, result)
          [] cs.task.pc = "updateNote" -> after_updateNote(c1, result)

\* A variant in which a response that fails validation leaves the retry loop
send_request_answered_no_retry(cs, response_data) ==
    LET v == _validate_response(response_data)
        c1 == [cs EXCEPT !.task.validated = Some(response_data),
                         !.task.accepted = (v = None)]
    IN  IF v = None
        THEN Resume(c1, response_data["result"])
        ELSE create_or_update_card_raise(
                [c1 EXCEPT !.task.last_exception =
                               Some([msg |-> v, attempt |-> cs.task.attempt]),
                           !.task.attempt = @ + 1],
                [msg |-> v, attempt |-> cs.task.attempt])

\* The try body of send_request once the answer is there
send_request_answered(cs, response_data) ==
    LET v == _validate_response(response_data)
        c1 == [cs EXCEPT !.task.validated = Some(response_data),
                         !.task.accepted = (v = None)]
    IN  IF v = None
        THEN Resume(c1, response_data["result"])
        ELSE send_request_except(c1, v)

Commit(t, cs) ==
    /\ tasks' = [tasks EXCEPT ![t] = cs.task]
    /\ existing_decks' = cs.cache
    /\ hist' = cs.hist


\* ------------------------------------------------------------------ Init
\* Before ensure_model_template_exists or a tool of mcp.py is called.  up and
\* models are the remote's: whether it can be reached, and its note types.
IdleTool ==
    [pc |-> "idle", up |-> TRUE, models |-> {}, models0 |-> {},
     attempt |-> 0, sent |-> <<>>, listed |-> Nothing,
     result |-> Nothing, exc |-> Nothing, text |-> Nothing,
     inserted |-> Nothing]

\* The locals of parse_markdown_file when the loop is entered
LocalsBeforeLoop ==
    [i |-> 1, cards |-> <<>>, blocks |-> <<>>,
     current_heading2 |-> "General",
     current_heading3_text |-> Nothing,
     current_heading3_idx |-> 0,
     current_question |-> Nothing,
     current_question_anki_id |-> Nothing]

\* send_request before it is called
IdleSend ==
    [pc |-> "idle", arg |-> Nothing, retries |-> 0, data |-> None,
     attempt |-> 0, last_exception |-> Nothing, posted |-> 0,
     slept |-> <<>>, delay |-> 0, validated |-> Nothing,
     result |-> Nothing, exc |-> Nothing]

\* parse_markdown_file before it is called
IdleScan ==
    [pc |-> "idle", lines |-> <<>>, from_scratch |-> FALSE,
     ps |-> LocalsBeforeLoop, iterations |-> 0, i_before |-> 0,
     title |-> None, cards |-> <<>>]

\* main.py before process_file is called
IdleRun ==
    [pc |-> "idle", family |-> None, n |-> 0,
     dry_run |-> FALSE, from_scratch |-> FALSE, limit |-> 0,
     title |-> None, cards |-> <<>>, blocks |-> <<>>, idx |-> 0,
     success_count |-> 0, note_ids |-> <<>>, sent |-> <<>>,
     faults |-> 0, next_id |-> 11,
     file0 |-> <<>>, start_file |-> <<>>, end_files |-> <<>>]

NoHistory(nt) ==
    [calls |-> 0, faults |-> 0,
     notes0 |-> nt,
     addNoteCalls |-> [i \in CardIds |-> 0],
     updateNoteCalls |-> [i \in CardIds |-> 0],
     finished |-> [i \in CardIds |-> 0],
     creators |-> [d \in DeckNames |-> {}],
     ensured |-> {}, listed |-> {}]

HumanNote(d) ==
    [deck |-> d,
     fields |-> [id |-> "x", question |-> markdown_to_html("q0"),
                 answer |-> markdown_to_html("a"), comments |-> "human",
                 obsidian_url |-> ""],
     tags |-> <<>>]

\* The remote before the run: clean, holding one note for id x that a human
\* has commented, or (after some earlier mishap) two notes for id x.
InitNotes == { <<>>, <<HumanNote("A")>>, <<HumanNote("A"), HumanNote("B")>> }
InitDecks == { {}, {"Default", "A"} }

Init ==
    /\ decks \in InitDecks
    /\ notes \in InitNotes
    /\ existing_decks = {}
    /\ tasks = [t \in Tasks |-> IdleTask]
    /\ hist = NoHistory(notes)
    /\ file = <<>>
    /\ run = IdleRun
    /\ tool = IdleTool
    /\ scan = IdleScan
    /\ send = IdleSend

\* --------------------------------------------------------------- actions
\* A coroutine calls create_or_update_card(card) and runs to its first await.
create_or_update_card(t, card, maxCalls) ==
    /\ ~Running(t)
    /\ hist.calls < maxCalls
    /\ Commit(t, ensure_deck_created(
            [task |-> [IdleTask EXCEPT !.card = card,
                                       !.call = hist.calls + 1,
                                       !.pre_ensured =
                                           card.deck_name \in hist.ensured],
             cache |-> existing_decks,
             hist |-> [hist EXCEPT !.calls = @ + 1]]))
    /\ UNCHANGED <<decks, notes>>
    /\ UNCHANGED main_vars
    /\ UNCHANGED tool_vars
    /\ UNCHANGED scan_vars
    /\ UNCHANGED send_vars

\* The server handles the request of t's pending attempt and answers.
RemoteHandle(t, shape, maxFaults) ==
    /\ Running(t)
    /\ tasks[t].net = "wait"
    /\ shape # "ok" => hist.faults < maxFaults
    /\ LET out == RemoteApply(tasks[t].req, decks, notes)
           done == shape # "failed"
       IN  /\ decks' = IF done THEN out.decks ELSE decks
           /\ notes' = IF done THEN out.notes ELSE notes
           /\ tasks' = [tasks EXCEPT
                          ![t].net = "answered",
                          ![t].resp = ResponseOf(shape, out),
                          ![t].applied = @ \/ (done /\ out.error = None)]
           /\ hist' = [hist EXCEPT !.faults = IF shape = "ok" THEN @ ELSE @ + 1]
    /\ UNCHANGED existing_decks
    /\ UNCHANGED main_vars
    /\ UNCHANGED tool_vars
    /\ UNCHANGED scan_vars
    /\ UNCHANGED send_vars

\* _make_request raises: the connection fails before the request arrives, or
\* the answer is lost or late (timeout, disconnect).
TransportFailure(t, maxFaults) ==
    /\ Running(t)
    /\ tasks[t].net \in {"wait", "answered"}
    /\ hist.faults < maxFaults
    /\ Commit(t, send_request_except(
            [ClientState(t) EXCEPT !.hist.faults = @ + 1],
            IF tasks[t].net = "wait" THEN "Failed to connect to Anki"
            ELSE "Request timed out"))
    /\ UNCHANGED <<decks, notes>>
    /\ UNCHANGED main_vars
    /\ UNCHANGED tool_vars
    /\ UNCHANGED scan_vars
    /\ UNCHANGED send_vars

\* The answer arrives: validate, then return to the call site or retry.
ReceiveResponse(t) ==
    /\ Running(t)
    /\ tasks[t].net = "answered"
    /\ Commit(t, send_request_answered(ClientState(t), tasks[t].resp))
    /\ UNCHANGED <<decks, notes>>
    /\ UNCHANGED main_vars
    /\ UNCHANGED tool_vars
    /\ UNCHANGED scan_vars
    /\ UNCHANGED send_vars

\* asyncio.sleep is over: the next attempt of the loop
RetryAfterSleep(t) ==
    /\ Running(t)
    /\ tasks[t].net = "sleep"
    /\ Commit(t, _make_request(ClientState(t)))
    /\ UNCHANGED <<decks, notes>>
    /\ UNCHANGED main_vars
    /\ UNCHANGED tool_vars
    /\ UNCHANGED scan_vars
    /\ UNCHANGED send_vars

\* Coroutines of one event loop, interleaved at every await
Call == \E t \in Tasks, card \in Cards : create_or_update_card(t, card, ConcCalls)
Remote == \E t \in Tasks, shape \in Shapes : RemoteHandle(t, shape, ConcFaults)
Fail == \E t \in Tasks : TransportFailure(t, ConcFaults)
Receive == \E t \in Tasks : ReceiveResponse(t)
Retry == \E t \in Tasks : RetryAfterSleep(t)

Next == Call \/ Remote \/ Fail \/ Receive \/ Retry
Spec == Init /\ [][Next]_vars

\* One coroutine making its calls one after the other
CallSeq == \E card \in Cards : create_or_update_card(1, card, MaxCalls)
RemoteSeq == \E shape \in Shapes : RemoteHandle(1, shape, MaxFaults)
FailSeq == TransportFailure(1, MaxFaults)
ReceiveSeq == ReceiveResponse(1)
RetrySeq == RetryAfterSleep(1)

NextSeq == CallSeq \/ RemoteSeq \/ FailSeq \/ ReceiveSeq \/ RetrySeq
SpecSeq == Init /\ [][NextSeq]_vars


\* =============================================================== main.py
\* The markdown importer of src/ankify/main.py: a synchronous program that
\* parses one file into cards, sends each card to the remote and writes the
\* note ids back into the file.  Nothing else runs while it runs; the only
\* choices are the file it is given and what the remote answers.
\*
\* A file is its sequence of lines (content.split('\n')); a line is the
\* record of what the importer's regular expressions see in it:
\*   fm        ---                        (front matter delimiter)
\*   title     title: <text>              (front matter entry)
\*   h1 h2 h3  #, ##, ### <text>
\*   Question  #### Question              Answer   #### Answer
\*   fence     n >= 3 backticks followed by <text> (the info string)
\*   id        <!-- anki-id: n -->
\*   text      a line of text (text, n), none of the above
\*   blank     a line of white space
\* Positions are 1-based: Python's index i is position i + 1, and position 0
\* stands for Python's -1 (no heading seen).
Line(k, t, m) == [kind |-> k, text |-> t, n |-> m]
FrontMatterDelimiter == Line("fm", "---", 0)
TitleEntry(t) == Line("title", t, 0)
H1(t) == Line("h1", t, 0)
H2(t) == Line("h2", t, 0)
H3(t) == Line("h3", t, 0)
QuestionHeading == Line("Question", "", 0)
AnswerHeading == Line("Answer", "", 0)
Fence(m, info) == Line("fence", info, m)
IdMarker(id) == Line("id", "", id)
Text(t, m) == Line("text", t, m)
Blank == Line("blank", " ", 0)

\* Python's truth of an Optional text, and of an Optional block content
TruthyText(opt) == opt # Nothing /\ opt[1] # ""
Truthy(opt) == opt # Nothing /\ opt[1] # <<>>

\* re.match(r'^##\s+(.*?)$', line)
extract_heading2(line) == IF line.kind = "h2" THEN Some(line.text) ELSE Nothing
\* re.match(r'^###\s+(.*?)$', line)
extract_heading3(line) == IF line.kind = "h3" THEN Some(line.text) ELSE Nothing
is_question_heading(line) == line.kind = "Question"
is_answer_heading(line) == line.kind = "Answer"
\* re.match(r'^(\s*`{3,})\s*(.*)$', line): the marker is the run of backticks
get_fence_marker(line) == IF line.kind = "fence" THEN Some(line.n) ELSE Nothing
extract_anki_id(line) == IF line.kind = "id" THEN Some(line.n) ELSE Nothing
\* line.startswith('#')
is_heading(line) == line.kind \in {"h1", "h2", "h3", "Question", "Answer"}
\* A variant for which any fence line begins with the marker
startswith_fence_marker_any_width(line, fence_marker) ==
    line.kind = "fence"
\* line.startswith(fence_marker): a line that begins with that many backticks
startswith_fence_marker(line, fence_marker) ==
    line.kind = "fence" /\ line.n >= fence_marker

\* str.strip() of the joined lines: white space at both ends goes
RECURSIVE strip(_)
strip(content) ==
    IF content = <<>> THEN <<>>
    ELSE IF content[1].kind = "blank" THEN strip(Tail(content))
    ELSE IF content[Len(content)].kind = "blank"
         THEN strip(SubSeq(content, 1, Len(content) - 1))
    ELSE content

\* find_anki_id_after_heading3: the first id marker at or after start_index,
\* before the next line that starts with '#'
RECURSIVE find_anki_id_after_heading3(_, _)
find_anki_id_after_heading3(lines, start_index) ==
    IF start_index > Len(lines) THEN Nothing
    ELSE IF is_heading(lines[start_index]) THEN Nothing
    ELSE IF extract_anki_id(lines[start_index]) # Nothing
         THEN extract_anki_id(lines[start_index])
    ELSE find_anki_id_after_heading3(lines, start_index + 1)

\* extract_code_block_content, first loop: skip lines up to the opening
\* fence, keeping the last id marker passed
RECURSIVE find_opening_fence(_, _, _)
find_opening_fence(lines, i, anki_id) ==
    IF i > Len(lines) THEN [i |-> i, fence_marker |-> Nothing, anki_id |-> anki_id]
    ELSE IF extract_anki_id(lines[i]) # Nothing
         THEN find_opening_fence(lines, i + 1, extract_anki_id(lines[i]))
    ELSE IF get_fence_marker(lines[i]) # Nothing
         THEN [i |-> i + 1, fence_marker |-> get_fence_marker(lines[i]),
               anki_id |-> anki_id]
    ELSE find_opening_fence(lines, i + 1, anki_id)

\* A variant of the second loop that steps once more when the lines run out
RECURSIVE collect_block_content_past_end(_, _, _, _)
collect_block_content_past_end(lines, i, fence_marker, content) ==
    IF i > Len(lines) THEN [i |-> i + 1, content |-> content]
    ELSE IF startswith_fence_marker(lines[i], fence_marker)
         THEN [i |-> i + 1, content |-> content]
    ELSE collect_block_content_past_end(lines, i + 1, fence_marker,
                                        Append(content, lines[i]))

\* extract_code_block_content, second loop: the body runs up to the first
\* line that starts with the opening fence's marker, or to the end
RECURSIVE collect_block_content(_, _, _, _)
collect_block_content(lines, i, fence_marker, content) ==
    IF i > Len(lines) THEN [i |-> i, content |-> content]
    ELSE IF startswith_fence_marker(lines[i], fence_marker)
         THEN [i |-> i + 1, content |-> content]
    ELSE collect_block_content(lines, i + 1, fence_marker,
                               Append(content, lines[i]))

\* extract_code_block_content(lines, start_index) -> (i, content, anki_id)
extract_code_block_content(lines, start_index) ==
    LET f == find_opening_fence(lines, start_index, Nothing)
    IN  IF f.fence_marker = Nothing \/ f.i > Len(lines)
        THEN [i |-> f.i, content |-> Nothing, anki_id |-> f.anki_id]
        ELSE LET c == collect_block_content(lines, f.i, f.fence_marker[1], <<>>)
             IN  [i |-> c.i,
                  content |-> IF c.content = <<>> THEN Nothing
                              ELSE Some(strip(c.content)),
                  anki_id |-> f.anki_id]

\* create_card: the card dictionary; an absent key is Nothing
create_card(question, answer, heading2, heading3_text, anki_id) ==
    [question |-> markdown_to_html(question),
     answer |-> markdown_to_html(answer),
     heading2 |-> heading2,
     raw_question |-> question,
     raw_answer |-> answer,
     heading3_text |-> heading3_text,
     anki_id |-> anki_id]

\* The front matter: from a first line --- to the next --- line that a
\* newline follows, with at least one line between them
FrontMatterEnd(lines) ==
    IF Len(lines) >= 1 /\ lines[1].kind = "fm"
       /\ \E j \in 3..(Len(lines) - 1) : lines[j].kind = "fm"
    THEN CHOOSE j \in 3..(Len(lines) - 1) :
            /\ lines[j].kind = "fm"
            /\ \A k \in 3..(j - 1) : lines[k].kind # "fm"
    ELSE 0

\* extract_front_matter + extract_title_from_front_matter
extract_title_from_front_matter(lines) ==
    LET e == FrontMatterEnd(lines)
        entries == {k \in 2..(e - 1) : lines[k].kind = "title"}
    IN  IF entries = {} THEN "Untitled"
        ELSE lines[CHOOSE k \in entries : \A m \in entries : m <= k].text

\* remove_front_matter: the front matter goes, and with it (\s*\n) the
\* blank lines that follow it
RECURSIVE skip_blank_lines(_)
skip_blank_lines(lines) ==
    IF Len(lines) >= 2 /\ lines[1].kind = "blank"
    THEN skip_blank_lines(Tail(lines))
    ELSE lines

remove_front_matter(lines) ==
    LET e == FrontMatterEnd(lines)
    IN  IF e = 0 THEN lines
        ELSE skip_blank_lines(SubSeq(lines, e + 1, Len(lines)))

\* parse_markdown_file: the scanning loop, ps its local variables; blocks
\* records each call of extract_code_block_content and what it returned
Extracted(ps, what, r) ==
    Append(ps.blocks, [heading |-> what, at |-> ps.i, i |-> r.i,
                       content |-> r.content, anki_id |-> r.anki_id])

\* A variant of the loop body that keeps the question after its card
parse_step_keeping_question(lines, from_scratch, ps) ==
    LET line == lines[ps.i] IN
      IF TruthyText(extract_heading2(line))
      THEN [ps EXCEPT !.current_heading2 = extract_heading2(line)[1],
                      !.i = @ + 1]
      ELSE IF TruthyText(extract_heading3(line))
      THEN [ps EXCEPT !.current_heading3_text = extract_heading3(line),
                      !.current_heading3_idx = ps.i,
                      !.i = @ + 1]
      ELSE IF is_question_heading(line)
      THEN LET r == extract_code_block_content(lines, ps.i + 1)
           IN  [ps EXCEPT !.i = r.i,
                          !.blocks = Extracted(ps, "Question", r),
                          !.current_question = r.content,
                          !.current_question_anki_id =
                              IF from_scratch THEN @ ELSE r.anki_id]
      ELSE IF is_answer_heading(line) /\ Truthy(ps.current_question)
      THEN LET r == extract_code_block_content(lines, ps.i + 1)
               current_answer == r.content
               anki_id_to_use ==
                   IF from_scratch THEN Nothing
                   ELSE IF ps.current_question_anki_id # Nothing
                        THEN ps.current_question_anki_id
                   ELSE IF ps.current_heading3_idx >= 1
                        THEN find_anki_id_after_heading3(
                                 lines, ps.current_heading3_idx + 1)
                   ELSE Nothing
           IN  IF Truthy(current_answer)
               THEN [ps EXCEPT
                       !.i = r.i,
                       !.blocks = Extracted(ps, "Answer", r),
                       !.cards = Append(@, create_card(
                            ps.current_question[1], current_answer[1],
                            ps.current_heading2, ps.current_heading3_text,
                            anki_id_to_use)),
                       !.current_question_anki_id = Nothing]
               ELSE [ps EXCEPT !.i = r.i,
                               !.blocks = Extracted(ps, "Answer", r)]
      ELSE [ps EXCEPT !.i = @ + 1]

\* One iteration of the scanning loop on the line at ps.i
parse_step(lines, from_scratch, ps) ==
    LET line == lines[ps.i] IN
      IF TruthyText(extract_heading2(line))
      THEN [ps EXCEPT !.current_heading2 = extract_heading2(line)[1],
                      !.i = @ + 1]
      ELSE IF TruthyText(extract_heading3(line))
      THEN [ps EXCEPT !.current_heading3_text = extract_heading3(line),
                      !.current_heading3_idx = ps.i,
                      !.i = @ + 1]
      ELSE IF is_question_heading(line)
      THEN LET r == extract_code_block_content(lines, ps.i + 1)
           IN  [ps EXCEPT !.i = r.i,
                          !.blocks = Extracted(ps, "Question", r),
                          !.current_question = r.content,
                          !.current_question_anki_id =
                              IF from_scratch THEN @ ELSE r.anki_id]
      ELSE IF is_answer_heading(line) /\ Truthy(ps.current_question)
      THEN LET r == extract_code_block_content(lines, ps.i + 1)
               current_answer == r.content
               anki_id_to_use ==
                   IF from_scratch THEN Nothing
                   ELSE IF ps.current_question_anki_id # Nothing
                        THEN ps.current_question_anki_id
                   ELSE IF ps.current_heading3_idx >= 1
                        THEN find_anki_id_after_heading3(
                                 lines, ps.current_heading3_idx + 1)
                   ELSE Nothing
           IN  IF Truthy(current_answer)
               THEN [ps EXCEPT
                       !.i = r.i,
                       !.blocks = Extracted(ps, "Answer", r),
                       !.cards = Append(@, create_card(
                            ps.current_question[1], current_answer[1],
                            ps.current_heading2, ps.current_heading3_text,
                            anki_id_to_use)),
                       !.current_question = Nothing,
                       !.current_question_anki_id = Nothing]
               ELSE [ps EXCEPT !.i = r.i,
                               !.blocks = Extracted(ps, "Answer", r)]
      ELSE [ps EXCEPT !.i = @ + 1]

\* `while i < len(lines)`: the iterations up to the end of the lines
RECURSIVE parse_lines(_, _, _)
parse_lines(lines, from_scratch, ps) ==
    IF ps.i > Len(lines) THEN ps
    ELSE parse_lines(lines, from_scratch, parse_step(lines, from_scratch, ps))

\* parse_markdown_file(file_path, from_scratch) -> (title, cards)
parse_markdown_file(content, from_scratch) ==
    LET ps == parse_lines(remove_front_matter(content), from_scratch,
                          LocalsBeforeLoop)
    IN  [title |-> extract_title_from_front_matter(content),
         cards |-> ps.cards, blocks |-> ps.blocks]

\* ------------------------------------------------- writing ids to the file
\* find_heading3_position: the first line that is a level-3 heading with this
\* text; 0 when there is none (Python's None)
find_heading3_position(content, heading3_text) ==
    LET found == {i \in 1..Len(content) :
                    extract_heading3(content[i]) = Some(heading3_text)}
    IN  IF found = {} THEN 0
        ELSE CHOOSE i \in found : \A j \in found : i <= j

\* The lines insert_id_in_markdown and update_anki_id_in_file look at: from
\* position i up to the next Question heading, level-3 or level-2 heading
RECURSIVE IdRegion(_, _)
IdRegion(lines, i) ==
    IF i > Len(lines) THEN {}
    ELSE IF \/ is_question_heading(lines[i])
            \/ TruthyText(extract_heading3(lines[i]))
            \/ TruthyText(extract_heading2(lines[i]))
         THEN {}
    ELSE {i} \cup IdRegion(lines, i + 1)

InsertLine(lines, at, line) ==
    SubSeq(lines, 1, at - 1) \o <<line>> \o SubSeq(lines, at, Len(lines))

\* A variant that puts the marker at the end of the file
insert_id_in_markdown_at_end(content, heading3_text, id_value) ==
    LET heading3_idx == find_heading3_position(content, heading3_text)
    IN  IF heading3_idx = 0 THEN content
        ELSE IF \E i \in IdRegion(content, heading3_idx + 1) :
                    extract_anki_id(content[i]) # Nothing
             THEN content
        ELSE Append(content, IdMarker(id_value))

\* A variant that inserts without looking for a marker
insert_id_in_markdown_unchecked(content, heading3_text, id_value) ==
    LET heading3_idx == find_heading3_position(content, heading3_text)
    IN  IF heading3_idx = 0 THEN content
        ELSE InsertLine(content, heading3_idx + 1, IdMarker(id_value))

\* insert_id_in_markdown(file_path, heading3_text, id_value): the file content
\* after the call
insert_id_in_markdown(content, heading3_text, id_value) ==
    LET heading3_idx == find_heading3_position(content, heading3_text)
    IN  IF heading3_idx = 0 THEN content
        ELSE IF \E i \in IdRegion(content, heading3_idx + 1) :
                    extract_anki_id(content[i]) # Nothing
             THEN content
        ELSE InsertLine(content, heading3_idx + 1, IdMarker(id_value))

\* A variant that replaces the marker under the heading whatever its value
update_anki_id_in_file_any_marker(content, heading3_text, old_id, new_id) ==
    LET heading3_idx == find_heading3_position(content, heading3_text)
        old == {i \in IdRegion(content, heading3_idx + 1) :
                    extract_anki_id(content[i]) # Nothing}
    IN  IF heading3_idx = 0 THEN content
        ELSE IF old # {}
             THEN [content EXCEPT
                     ![CHOOSE i \in old : \A j \in old : i <= j] =
                         IdMarker(new_id)]
        ELSE insert_id_in_markdown(content, heading3_text, new_id)

\* update_anki_id_in_file(file_path, heading3_text, old_id, new_id)
update_anki_id_in_file(content, heading3_text, old_id, new_id) ==
    LET heading3_idx == find_heading3_position(content, heading3_text)
        old == {i \in IdRegion(content, heading3_idx + 1) :
                    extract_anki_id(content[i]) = Some(old_id)}
    IN  IF heading3_idx = 0 THEN content
        ELSE IF old # {}
             THEN [content EXCEPT
                     ![CHOOSE i \in old : \A j \in old : i <= j] =
                         IdMarker(new_id)]
        ELSE insert_id_in_markdown(content, heading3_text, new_id)

\* card.get('heading3_text', 'Unknown heading')
HeadingOf(card) ==
    IF card.heading3_text = Nothing THEN "Unknown heading"
    ELSE card.heading3_text[1]

\* ------------------------------------------------------ syncing one card
\* What the remote does with the requests of one card: unreachable makes
\* requests.post raise; error is an answer whose error field is set; null is
\* an addNote answer with neither result nor error; not_found is the error
\* "Note was not found".  find stands for the answers to findNotes and
\* notesInfo: no note, a note whose Front is the question, an error answer.
Answers ==
    [deck : {"ok", "unreachable"},
     update : {"ok", "not_found", "error", "unreachable"},
     find : {"empty", "match", "error", "unreachable"},
     add : {"ok", "error", "null", "unreachable"},
     update2 : {"ok", "error", "unreachable"}]

\* The id of a note that find_matching_note_by_content finds on the remote
MatchingNotes == {50}
\* "dry-run-id", the note id of a dry run
DryRunId == -1

Req(action, deck, note) == [action |-> action, deck |-> deck, note |-> note]
AnkiResult(content, note_id, raised, sent, faults) ==
    [file |-> content, note_id |-> note_id, raised |-> raised,
     sent |-> sent, faults |-> faults]

\* A variant that names the deck by the root deck and the level-2 heading
full_deck_name_without_title(deck_name, title, card) ==
    <<deck_name, card.heading2>>
\* f"{deck_name}::{title}::{card['heading2']}", as its segments
full_deck_name(deck_name, title, card) == <<deck_name, title, card.heading2>>

\* A variant that posts addNote twice
add_new_note_twice(content, deck, ans, fresh, dry_run, sent, faults) ==
    LET sent1 == IF dry_run THEN sent
                 ELSE sent \o <<Req("addNote", deck, Nothing),
                                Req("addNote", deck, Nothing)>>
    IN  IF dry_run THEN AnkiResult(content, Some(DryRunId), FALSE, sent1, faults)
        ELSE IF ans.add = "unreachable"
             THEN AnkiResult(content, Nothing, TRUE, sent1, faults + 1)
        ELSE IF ans.add = "ok"
             THEN AnkiResult(content, Some(fresh), FALSE, sent1, faults)
        ELSE AnkiResult(content, Nothing, FALSE, sent1, faults + 1)

\* A variant that posts addNote in a dry run too
add_new_note_posting_in_dry_run(content, deck, ans, fresh, dry_run, sent, faults) ==
    LET sent1 == Append(sent, Req("addNote", deck, Nothing))
    IN  IF dry_run THEN AnkiResult(content, Some(DryRunId), FALSE, sent1, faults)
        ELSE IF ans.add = "unreachable"
             THEN AnkiResult(content, Nothing, TRUE, sent1, faults + 1)
        ELSE IF ans.add = "ok"
             THEN AnkiResult(content, Some(fresh), FALSE, sent1, faults)
        ELSE AnkiResult(content, Nothing, FALSE, sent1, faults + 1)

\* add_or_update_note_in_anki, the branch of a card without an id: addNote
add_new_note(content, deck, ans, fresh, dry_run, sent, faults) ==
    LET sent1 == IF dry_run THEN sent
                 ELSE Append(sent, Req("addNote", deck, Nothing))
    IN  IF dry_run THEN AnkiResult(content, Some(DryRunId), FALSE, sent1, faults)
        ELSE IF ans.add = "unreachable"
             THEN AnkiResult(content, Nothing, TRUE, sent1, faults + 1)
        ELSE IF ans.add = "ok"
             THEN AnkiResult(content, Some(fresh), FALSE, sent1, faults)
        ELSE AnkiResult(content, Nothing, FALSE, sent1, faults + 1)

\* add_or_update_note_in_anki, after updateNoteFields answered "Note was not
\* found": look for the note by its content, then update it or add a new one
note_was_not_found(content, deck, card, ans, fresh, match, sent, faults) ==
    LET heading3_text == HeadingOf(card)
        old_id == card.anki_id[1]
        sent1 == Append(sent, Req("findNotes", deck, Nothing))
        sent2 == Append(sent1, Req("notesInfo", <<>>, Nothing))
    IN  IF ans.find = "unreachable"
        THEN AnkiResult(content, Nothing, TRUE, sent1, faults + 1)
        ELSE IF ans.find = "match"
        THEN LET content1 == update_anki_id_in_file(
                                content, heading3_text, old_id, match)
                 sent3 == Append(sent2, Req("updateNoteFields", <<>>, Some(match)))
             IN  IF ans.update2 = "unreachable"
                 THEN AnkiResult(content1, Nothing, TRUE, sent3, faults + 1)
                 ELSE IF ans.update2 = "error"
                 THEN AnkiResult(content1, Nothing, FALSE, sent3, faults + 1)
                 ELSE AnkiResult(content1, Some(match), FALSE, sent3, faults)
        ELSE LET sent3 == Append(sent1, Req("addNote", deck, Nothing))
                 f1 == faults + (IF ans.find = "error" THEN 1 ELSE 0)
             IN  IF ans.add = "unreachable"
                 THEN AnkiResult(content, Nothing, TRUE, sent3, f1 + 1)
                 ELSE IF ans.add = "ok"
                 THEN AnkiResult(
                        update_anki_id_in_file(content, heading3_text, old_id, fresh),
                        Some(fresh), FALSE, sent3, f1)
                 ELSE AnkiResult(content, Nothing, FALSE, sent3, f1 + 1)

\* add_or_update_note_in_anki(file_path, deck_name, title, card, dry_run)
add_or_update_note_in_anki(content, deck_name, title, card, dry_run, ans, fresh, match) ==
    LET deck == full_deck_name(deck_name, title, card)
        sent0 == IF dry_run THEN <<>> ELSE <<Req("createDeck", deck, Nothing)>>
    IN  IF ~dry_run /\ ans.deck = "unreachable"
        THEN AnkiResult(content, Nothing, TRUE, sent0, 1)
        ELSE IF card.anki_id # Nothing
        THEN LET sent1 == IF dry_run THEN sent0
                          ELSE Append(sent0, Req("updateNoteFields", <<>>,
                                                 card.anki_id))
                 answer == IF dry_run THEN "ok" ELSE ans.update
             IN  IF answer = "unreachable"
                 THEN AnkiResult(content, Nothing, TRUE, sent1, 1)
                 ELSE IF answer = "not_found"
                 THEN note_was_not_found(content, deck, card, ans, fresh,
                                         match, sent1, 1)
                 ELSE IF answer = "error"
                 THEN AnkiResult(content, Nothing, FALSE, sent1, 1)
                 ELSE AnkiResult(content, card.anki_id, FALSE, sent1, 0)
        ELSE add_new_note(content, deck, ans, fresh, dry_run, sent0, 0)

\* ------------------------------------------------------- the files read
\* A file is a sequence of sections; a section is what one card takes: the
\* headings above it, its level-3 heading, an id marker, the Question and
\* the Answer part.  The texts of section k are (q, k) and (a, k).
RootDeck == "root"
Block(w, body) == <<Fence(w, "")>> \o body \o <<Fence(w, "")>>
QBody(k) == <<Text("q", k)>>
ABody(k) == <<Text("a", k)>>
QPart(k) == <<QuestionHeading>> \o Block(3, QBody(k))
APart(k) == <<AnswerHeading>> \o Block(3, ABody(k))
TitleAt(k) == IF k % 2 = 1 THEN "C" ELSE "D"

\* deck: headings of level 1 and 2 above a card with or without a title
DeckPrefixes ==
    { <<>>, <<H1("A")>>, <<H2("B")>>, <<H1("A"), H2("B")>>, <<H1("E")>>,
      <<H2("F")>> }
DeckSections(k) ==
    { p \o h \o QPart(k) \o APart(k) :
        p \in DeckPrefixes, h \in { <<>>, <<H3("C")>> } }
FrontMatters ==
    { <<>>,
      <<FrontMatterDelimiter, TitleEntry("T"), FrontMatterDelimiter>>,
      <<FrontMatterDelimiter, Text("tags", 0), FrontMatterDelimiter, Blank>> }

\* pair: a section whose heading, Question part or Answer part may be
\* absent, without a block, or with a block that holds nothing
PairSections(k) ==
    { h \o q \o a :
        h \in { <<>>, <<H3(TitleAt(k)), IdMarker(k)>> },
        q \in { <<>>, <<QuestionHeading>>,
                <<QuestionHeading>> \o Block(3, <<Blank>>), QPart(k) },
        a \in { <<>>, <<AnswerHeading>>,
                <<AnswerHeading>> \o Block(3, <<>>), APart(k) } }

\* id: complete cards under headings that may repeat, with the id marker
\* absent, under the heading or under the Question heading; a card without
\* a heading; a heading with a question only
IdSections(k) ==
    { <<H3(t)>> \o QPart(k) \o APart(k) : t \in {"C", "D"} }
    \cup { <<H3(t), IdMarker(k)>> \o QPart(k) \o APart(k) : t \in {"C", "D"} }
    \cup { <<H3("C"), QuestionHeading, IdMarker(k)>> \o Block(3, QBody(k))
                \o APart(k),
           QPart(k) \o APart(k),
           <<H3("C")>> \o QPart(k) }

\* open: a card whose Question or Answer block may lack its closing fence:
\* closed, open to the end of the input, opened with four backticks and
\* followed by three only (with an id marker above it), or absent
OpenBlocks(k, body) ==
    { Block(3, body),
      <<Fence(3, "")>> \o body,
      <<IdMarker(k), Fence(4, "")>> \o body \o <<Fence(3, "")>>,
      <<>> }
OpenSections(k) ==
    { <<H3(TitleAt(k)), QuestionHeading>> \o q \o <<AnswerHeading>> \o a :
        q \in OpenBlocks(k, QBody(k)), a \in OpenBlocks(k, ABody(k)) }

SectionsOf(family, k) ==
    CASE family = "deck" -> DeckSections(k)
      [] family = "pair" -> PairSections(k)
      [] family \in {"id", "opt"} -> IdSections(k)
      [] family = "open" -> OpenSections(k)

RECURSIVE SectionDocs(_, _)
SectionDocs(family, k) ==
    IF k > MaxSections THEN { <<>> }
    ELSE { <<>> } \cup { s \o d : s \in SectionsOf(family, k),
                                   d \in SectionDocs(family, k + 1) }

\* fence: one card whose Question or Answer block is opened with 3 or 4
\* backticks and holds up to MaxBody lines, fence lines among them
FenceBodyLines ==
    { Text("x", 0), Fence(3, ""), Fence(3, "py"), Fence(4, ""),
      Fence(4, "py"), Fence(5, "") }
RECURSIVE Bodies(_)
Bodies(n) ==
    IF n = 0 THEN { <<>> }
    ELSE Bodies(n - 1)
         \cup { Append(b, l) : b \in Bodies(n - 1), l \in FenceBodyLines }
FenceDocs ==
    { <<H3("C"), QuestionHeading, Fence(w, "")>> \o b \o <<Fence(w, "")>>
        \o APart(1) : w \in {3, 4}, b \in Bodies(MaxBody) }
    \cup { <<H3("C")>> \o QPart(1) \o <<AnswerHeading, Fence(w, "")>> \o b
        \o <<Fence(w, "")>> : w \in {3, 4}, b \in Bodies(MaxBody) }

Families == {"deck", "pair", "id", "fence"}
Docs(family) ==
    CASE family = "fence" -> FenceDocs
      [] family = "deck" ->
            { fm \o d : fm \in FrontMatters, d \in SectionDocs("deck", 1) }
      [] OTHER -> SectionDocs(family, 1)

\* Only the id files are run more than once and against a failing remote.
RunsOf(family) == IF family = "id" THEN MaxRuns ELSE 1
ErrorsOf(family) == IF family = "id" THEN MaxErrors ELSE 0

\* --------------------------------------------------------- main.py runs
InitMain ==
    /\ decks = {}
    /\ notes = <<>>
    /\ existing_decks = {}
    /\ tasks = [t \in Tasks |-> IdleTask]
    /\ hist = NoHistory(<<>>)
    /\ tool = IdleTool
    /\ scan = IdleScan
    /\ send = IdleSend
    /\ \E family \in Families :
          /\ file \in Docs(family)
          /\ run = [IdleRun EXCEPT !.pc = "ready", !.family = family,
                                   !.file0 = file]

\* A variant that takes the whole list whatever the limit
limited_to_all(cards, limit) == cards
\* process_cards, `cards = cards[:limit]`; limit 0 stands for None
limited(cards, limit) ==
    IF limit > 0 /\ limit < Len(cards) THEN SubSeq(cards, 1, limit) ELSE cards

\* process_file(file_path, deck_name, dry_run, limit, from_scratch) up to the
\* first card of process_cards: parse the file, cut the list; without cards
\* process_cards returns 0 at once.
process_file(dry_run, limit, from_scratch) ==
    /\ run.pc \in {"ready", "done", "raised"}
    /\ run.n < RunsOf(run.family)
    /\ LET parsed == parse_markdown_file(file, from_scratch)
           cards == limited(parsed.cards, limit)
       IN  run' = [run EXCEPT
                     !.pc = IF cards = <<>> THEN "done" ELSE "cards",
                     !.n = @ + 1,
                     !.dry_run = dry_run, !.limit = limit,
                     !.from_scratch = from_scratch,
                     !.title = parsed.title, !.cards = cards,
                     !.blocks = parsed.blocks,
                     !.idx = 1, !.success_count = 0,
                     !.note_ids = <<>>, !.sent = <<>>,
                     !.start_file = file,
                     !.end_files = IF cards = <<>> THEN Append(@, file) ELSE @]
    /\ UNCHANGED file
    /\ UNCHANGED anki_vars
    /\ UNCHANGED tool_vars
    /\ UNCHANGED scan_vars
    /\ UNCHANGED send_vars

\* One iteration of the loop of process_cards: the card's id goes into the
\* file, the card goes to the remote, a new note's id goes into the file.
\* An exception of requests.post is caught nowhere: it ends the run.  After
\* the last card process_cards returns success_count.
process_card(ans, match) ==
    /\ run.pc = "cards"
    /\ LET card == run.cards[run.idx]
           heading3_text == HeadingOf(card)
           content1 ==
               IF ~run.dry_run /\ card.anki_id # Nothing
               THEN insert_id_in_markdown(file, heading3_text, card.anki_id[1])
               ELSE file
           r == add_or_update_note_in_anki(
                    content1, RootDeck, run.title, card, run.dry_run,
                    ans, run.next_id, match)
           content2 ==
               IF /\ ~r.raised /\ r.note_id # Nothing
                  /\ ~run.dry_run /\ card.anki_id = Nothing
               THEN insert_id_in_markdown(r.file, heading3_text, r.note_id[1])
               ELSE r.file
           last == run.idx = Len(run.cards)
       IN  /\ run.faults + r.faults <= ErrorsOf(run.family)
           /\ file' = content2
           /\ run' = [run EXCEPT
                 !.pc = IF r.raised THEN "raised"
                        ELSE IF last THEN "done" ELSE "cards",
                 !.idx = IF r.raised THEN @ ELSE @ + 1,
                 !.success_count =
                     IF ~r.raised /\ r.note_id # Nothing THEN @ + 1 ELSE @,
                 !.note_ids = IF r.raised THEN @ ELSE Append(@, r.note_id),
                 !.sent = r.sent,
                 !.faults = @ + r.faults,
                 !.next_id = IF r.note_id = Some(run.next_id) THEN @ + 1 ELSE @,
                 !.end_files = IF ~r.raised /\ last
                               THEN Append(@, content2) ELSE @]
    /\ UNCHANGED anki_vars
    /\ UNCHANGED tool_vars
    /\ UNCHANGED scan_vars
    /\ UNCHANGED send_vars

ProcessFile == process_file(FALSE, 0, FALSE)
\* Once the remote has failed ErrorsOf requests it answers every request.
AllOk ==
    [deck |-> "ok", update |-> "ok", find |-> "empty", add |-> "ok",
     update2 |-> "ok"]
\* The answers that the requests of this card can meet: an answer to a
\* request that is not sent is left at ok.
AnswersFor(card) ==
    { a \in Answers :
        /\ a.deck = "unreachable" => (a.update = "ok" /\ a.add = "ok")
        /\ card.anki_id = Nothing => a.update = "ok"
        /\ a.update # "not_found" => (a.find = "empty" /\ a.update2 = "ok")
        /\ a.find # "match" => a.update2 = "ok"
        /\ (card.anki_id # Nothing /\ a.add # "ok") =>
                (a.update = "not_found" /\ a.find \in {"empty", "error"}) }
AnswersLeft ==
    IF run.pc = "cards" /\ run.faults < ErrorsOf(run.family)
    THEN AnswersFor(run.cards[run.idx]) ELSE {AllOk}
ProcessCard ==
    \E ans \in AnswersLeft, match \in MatchingNotes : process_card(ans, match)

NextMain == ProcessFile \/ ProcessCard
SpecMain == InitMain /\ [][NextMain]_vars

\* Runs with the options of the command line: --dry-run, --limit N (0 when
\* it is not given) and --from-scratch, over the files of the id family,
\* one run per file, against a remote that answers every request.
InitOptions ==
    /\ decks = {}
    /\ notes = <<>>
    /\ existing_decks = {}
    /\ tasks = [t \in Tasks |-> IdleTask]
    /\ hist = NoHistory(<<>>)
    /\ tool = IdleTool
    /\ scan = IdleScan
    /\ send = IdleSend
    /\ file \in Docs("opt")
    /\ run = [IdleRun EXCEPT !.pc = "ready", !.family = "opt", !.file0 = file]

ProcessFileWithOptions ==
    \E dry_run \in BOOLEAN, limit \in 0..MaxLimit, from_scratch \in BOOLEAN :
        process_file(dry_run, limit, from_scratch)

NextOptions == ProcessFileWithOptions \/ ProcessCard
SpecOptions == InitOptions /\ [][NextOptions]_vars

\* ----------------------------------------- the scanning loop, step by step
\* parse_markdown_file(file_path, from_scratch) up to the loop, over the
\* files of every family
InitParse ==
    /\ decks = {}
    /\ notes = <<>>
    /\ existing_decks = {}
    /\ tasks = [t \in Tasks |-> IdleTask]
    /\ hist = NoHistory(<<>>)
    /\ run = IdleRun
    /\ tool = IdleTool
    /\ send = IdleSend
    /\ \E family \in Families \cup {"open"} : file \in Docs(family)
    /\ \E from_scratch \in BOOLEAN :
          scan = [IdleScan EXCEPT !.pc = "loop",
                                  !.lines = remove_front_matter(file),
                                  !.from_scratch = from_scratch]

\* One iteration of `while i < len(lines)`.  The count of iterations is
\* kept up to one more than the lines.
ParseIteration ==
    /\ scan.pc = "loop"
    /\ scan.ps.i <= Len(scan.lines)
    /\ scan.iterations <= Len(scan.lines)
    /\ scan' = [scan EXCEPT
                  !.ps = parse_step(scan.lines, scan.from_scratch, scan.ps),
                  !.i_before = scan.ps.i,
                  !.iterations = @ + 1]
    /\ UNCHANGED anki_vars
    /\ UNCHANGED main_vars
    /\ UNCHANGED tool_vars
    /\ UNCHANGED send_vars

\* The loop condition fails: `return title, cards`
ParseReturn ==
    /\ scan.pc = "loop"
    /\ scan.ps.i > Len(scan.lines)
    /\ scan' = [scan EXCEPT !.pc = "returned",
                            !.title = extract_title_from_front_matter(file),
                            !.cards = scan.ps.cards]
    /\ UNCHANGED anki_vars
    /\ UNCHANGED main_vars
    /\ UNCHANGED tool_vars
    /\ UNCHANGED send_vars

NextParse == ParseIteration \/ ParseReturn
SpecParse == InitParse /\ [][NextParse]_vars

\* ------------------------------------------- ensure_model_template_exists
\* Card.template(): the note type createModel is asked to create
template ==
    [modelName |-> "ObsidianCard",
     inOrderFields |-> <<"id", "question", "answer", "comments",
                         "obsidian_url">>]

\* The note types the remote may hold before the call: none, a stock one,
\* the one of template, or both.
ModelNames == {"Basic", template.modelName}
InitModels == SUBSET ModelNames

ModelSites == {"version", "modelNames", "createModel"}

\* The remote handles a request of ensure_model_template_exists
RemoteModels(action, ms) ==
    CASE action = "version"     -> [models |-> ms, result |-> default_version]
      [] action = "modelNames"  -> [models |-> ms, result |-> ms]
      [] action = "createModel" ->
            [models |-> ms \cup {template.modelName}, result |-> template]

\* The outer except clause: whatever was raised is wrapped and raised again
ensure_model_template_exists_raise(tl, msg) ==
    [tl EXCEPT !.pc = "raised",
               !.exc = Some(<<"Failed to ensure model template exists: ",
                              msg>>)]

ensure_model_template_exists_return(tl, created) ==
    [tl EXCEPT !.pc = "returned", !.result = Some(created)]

\* "Create the model if it doesn't exist": an empty listing is falsy
after_modelNames(tl, models) ==
    LET t1 == [tl EXCEPT !.listed = Some(models)]
    IN  IF models # {} /\ "ObsidianCard" \notin models
        THEN [t1 EXCEPT !.pc = "createModel", !.attempt = 0]
        ELSE ensure_model_template_exists_return(t1, FALSE)

\* send_request returned at the call site the coroutine is at
model_request_returned(tl, result) ==
    CASE tl.pc = "version"     -> [tl EXCEPT !.pc = "modelNames", !.attempt = 0]
      [] tl.pc = "modelNames"  -> after_modelNames(tl, result)
      [] tl.pc = "createModel" -> ensure_model_template_exists_return(tl, TRUE)

\* The except clause of send_request's loop for these call sites: the next
\* attempt follows the sleep; after the last one the exception is raised,
\* and the one of the version request is replaced by the inner except clause.
model_request_failed(tl, msg) ==
    IF tl.attempt < max_retries - 1
    THEN [tl EXCEPT !.attempt = @ + 1]
    ELSE ensure_model_template_exists_raise(
            tl, IF tl.pc = "version"
                THEN "Make sure Anki is running and AnkiConnect plugin is installed."
                ELSE msg)

\* ---------------------------------------------------------------- mcp.py
\* The attributes of an AnkiConnect instance: what __init__ sets and what the
\* class defines.
AnkiConnectAttributes ==
    {"session", "anki_connect_url", "default_version", "max_retries",
     "retry_delay", "existing_decks",
     "__init__", "__aenter__", "__aexit__", "send_request",
     "_prepare_request_data", "_make_request", "_validate_response",
     "ensure_model_template_exists", "get_anki_id_by_card_id",
     "ensure_deck_created", "create_or_update_card"}

ToolDeckNames == {"A", "B", "Default"}

\* names.sort(): strings in code point order
NameOrder == <<"A", "B", "Default">>
sorted_names(S) == SelectSeq(NameOrder, LAMBDA x : x \in S)

\* '# Decks: \n' + '\n'.join(names), as the lines of the text
DeckListing(names) ==
    <<"# Decks: ">> \o
    (IF names = <<>> THEN <<"">>
     ELSE [i \in 1..Len(names) |-> <<"- ", names[i]>>])

FailText ==
    <<"Fail to retrieve decks, notify user if anki has properly been started">>

\* list_deck_names.  anki.list_decks is looked up on the instance: a name
\* that is no attribute raises AttributeError, which the except clause of
\* the tool catches like a failure of the remote.
list_deck_names(up, dk) ==
    IF "list_decks" \notin AnkiConnectAttributes THEN FailText
    ELSE IF ~up THEN FailText
    ELSE DeckListing(sorted_names(dk))

\* class Card(BaseModel): its fields, and those declared with a default.
\* The pinned pydantic (2.10.6) requires a field annotated Optional[str]
\* that has no default.
CardFieldNames ==
    {"id", "deck_name", "obsidian_url", "question", "answer", "tags"}
CardDefaults == {"id", "tags"}
\* Card(**kwargs): the required fields the call leaves out; when there are
\* any, the constructor raises ValidationError
CardMissing(kwargs) == (CardFieldNames \ CardDefaults) \ DOMAIN kwargs

\* How create_or_update_card(card) can end: it returns, or it raises an
\* exception with one of these messages
CardOutcomes ==
    {"returned", "Failed to connect to Anki", "Found multiple notes"}

\* insert_card(deck_name, question, answer).  The card is built before the
\* try statement, so that an exception of the constructor leaves the tool;
\* one of create_or_update_card becomes the text returned.
insert_card(deck_name, question, answer, outcome) ==
    LET kwargs == [deck_name |-> deck_name, question |-> question,
                   answer |-> answer]
    IN  IF CardMissing(kwargs) # {}
        THEN [raised |-> TRUE,
              text |-> <<"ValidationError", CardMissing(kwargs)>>,
              remote |-> outcome]
        ELSE IF outcome = "returned"
        THEN [raised |-> FALSE, text |-> <<"Successful">>, remote |-> outcome]
        ELSE [raised |-> FALSE,
              text |-> <<"Failed to add card due to ", outcome>>,
              remote |-> outcome]

\* ------------------------------------------------ runs of the entries
InitTool ==
    /\ decks \in SUBSET ToolDeckNames
    /\ notes = <<>>
    /\ existing_decks = {}
    /\ tasks = [t \in Tasks |-> IdleTask]
    /\ hist = NoHistory(<<>>)
    /\ file = <<>>
    /\ run = IdleRun
    /\ scan = IdleScan
    /\ send = IdleSend
    /\ \E up \in BOOLEAN, ms \in InitModels :
          tool = [IdleTool EXCEPT !.up = up, !.models = ms, !.models0 = ms]

\* ensure_model_template_exists is called and runs to its first await
EnsureModelTemplateExists ==
    /\ tool.pc = "idle"
    /\ tool' = [tool EXCEPT !.pc = "version", !.attempt = 0]
    /\ UNCHANGED anki_vars
    /\ UNCHANGED main_vars
    /\ UNCHANGED scan_vars
    /\ UNCHANGED send_vars

\* One attempt of the pending request: it is posted; a remote that is up
\* handles it and answers, or answers with an error without handling it; a
\* remote that is down makes _make_request raise.
ModelAttempt(outcome) ==
    /\ tool.pc \in ModelSites
    /\ outcome = "unreachable" <=> ~tool.up
    /\ LET out == RemoteModels(tool.pc, tool.models)
           t1 == [tool EXCEPT !.sent = Append(@, tool.pc)]
       IN  tool' =
             CASE outcome = "ok" ->
                    model_request_returned(
                        [t1 EXCEPT !.models = out.models], out.result)
               [] outcome = "error" ->
                    model_request_failed(t1, "internal error")
               [] outcome = "unreachable" ->
                    model_request_failed(t1, "Failed to connect to Anki")
    /\ UNCHANGED anki_vars
    /\ UNCHANGED main_vars
    /\ UNCHANGED scan_vars
    /\ UNCHANGED send_vars

ModelRequest == \E outcome \in {"ok", "error", "unreachable"} : ModelAttempt(outcome)

\* The MCP client invokes the tool list_deck_names
ListDeckNames ==
    /\ tool.text = Nothing
    /\ tool' = [tool EXCEPT !.text = Some(list_deck_names(tool.up, decks))]
    /\ UNCHANGED anki_vars
    /\ UNCHANGED main_vars
    /\ UNCHANGED scan_vars
    /\ UNCHANGED send_vars

\* The MCP client invokes the tool insert_card
InsertCard ==
    /\ tool.inserted = Nothing
    /\ \E deck_name \in DeckNames, outcome \in CardOutcomes :
          tool' = [tool EXCEPT !.inserted =
                      Some(insert_card(deck_name, "q1", "a", outcome))]
    /\ UNCHANGED anki_vars
    /\ UNCHANGED main_vars
    /\ UNCHANGED scan_vars
    /\ UNCHANGED send_vars

NextTool ==
    EnsureModelTemplateExists \/ ModelRequest \/ ListDeckNames \/ InsertCard
SpecTool == InitTool /\ [][NextTool]_vars

\* ------------------------------------------ send_request, called directly
\* send_request(data, retries) as a caller of the class may call it: with
\* retries left out (None) or given, 0 included.
RetriesArgs == {Nothing} \cup {Some(n) : n \in 0..MaxRetriesArg}
DirectRequests ==
    { [action |-> "deckNames"],
      [action |-> "createDeck", params |-> [deck |-> "B"]] }

\* A variant that waits the same delay after every failed attempt
retry_sleep_flat(attempt) == retry_delay
\* asyncio.sleep(self.retry_delay * (attempt + 1))
retry_sleep(attempt) == retry_delay * (attempt + 1)

\* The call up to its first await.  With an empty range(retries) the loop
\* body never runs, last_exception stays None and the function ends without
\* a return statement: the caller gets None.
SendRequestCall(data, retries_arg) ==
    /\ send.pc = "idle"
    /\ LET retries == IF retries_arg = Nothing THEN max_retries
                      ELSE retries_arg[1]
           s1 == [send EXCEPT !.arg = retries_arg,
                              !.retries = retries,
                              !.data = _prepare_request_data(data)]
       IN  send' = IF retries > 0
                   THEN [s1 EXCEPT !.pc = "post", !.attempt = 0]
                   ELSE [s1 EXCEPT !.pc = "returned", !.result = Some(None)]
    /\ UNCHANGED anki_vars
    /\ UNCHANGED main_vars
    /\ UNCHANGED tool_vars
    /\ UNCHANGED scan_vars

\* The except clause of the loop, and the statement after the loop
send_request_failed(s, msg) ==
    LET s1 == [s EXCEPT !.last_exception = Some(msg)]
    IN  IF s.attempt < s.retries - 1
        THEN [s1 EXCEPT !.pc = "sleep", !.delay = retry_sleep(s.attempt)]
        ELSE [s1 EXCEPT !.pc = "raised", !.exc = s1.last_exception]

\* One attempt: the request is posted; the remote handles it and answers in
\* some shape, or the transport fails; the answer is validated.
SendAttempt(shape) ==
    /\ send.pc = "post"
    /\ LET out == RemoteApply(send.data, decks, notes)
           done == shape \notin {"failed", "unreachable"}
           s1 == [send EXCEPT !.posted = @ + 1]
       IN  /\ decks' = IF done THEN out.decks ELSE decks
           /\ send' =
                IF shape = "unreachable"
                THEN send_request_failed(s1, "Failed to connect to Anki")
                ELSE LET response_data == ResponseOf(shape, out)
                         v == _validate_response(response_data)
                     IN  IF v = None
                         THEN [s1 EXCEPT !.pc = "returned",
                                         !.validated = Some(response_data),
                                         !.result = Some(response_data["result"])]
                         ELSE send_request_failed(s1, v)
    /\ UNCHANGED <<notes, existing_decks, tasks, hist>>
    /\ UNCHANGED main_vars
    /\ UNCHANGED tool_vars
    /\ UNCHANGED scan_vars

\* asyncio.sleep returns: the next attempt of the loop
SendSleepOver ==
    /\ send.pc = "sleep"
    /\ send' = [send EXCEPT !.pc = "post",
                            !.slept = Append(@, send.delay),
                            !.attempt = @ + 1]
    /\ UNCHANGED anki_vars
    /\ UNCHANGED main_vars
    /\ UNCHANGED tool_vars
    /\ UNCHANGED scan_vars

InitSend ==
    /\ decks \in InitDecks
    /\ notes = <<>>
    /\ existing_decks = {}
    /\ tasks = [t \in Tasks |-> IdleTask]
    /\ hist = NoHistory(<<>>)
    /\ file = <<>>
    /\ run = IdleRun
    /\ tool = IdleTool
    /\ scan = IdleScan
    /\ send = IdleSend

SendCall == \E data \in DirectRequests, r \in RetriesArgs : SendRequestCall(data, r)
SendPost == \E shape \in Shapes \cup {"unreachable"} : SendAttempt(shape)
NextSend == SendCall \/ SendPost \/ SendSleepOver
SpecSend == InitSend /\ [][NextSend]_vars

\* ================================================================ claims
NotesWithId(nt, i) == {n \in 1..Len(nt) : nt[n].fields["id"] = i}
Positions(trace, kind, what) ==
    {k \in 1..Len(trace) : trace[k] = <<kind, what>>}
SendsOf(trace, action) == Cardinality(Positions(trace, "send", action))
Started(t) == tasks[t].pc # "idle"
Raised(t) == tasks[t].pc = "raised"
Returned(t) == tasks[t].pc = "returned"

\* C1: against a remote that had no note for id i and answers every request,
\* sequential calls for cards with id i send addNote on the first call only
\* and updateNote on each later one, every call succeeds, and the remote
\* never holds more than one note whose id field is i.
C1_AddOnceThenUpdate ==
    \A i \in CardIds :
        (hist.faults = 0 /\ NotesWithId(hist.notes0, i) = {}) =>
            /\ hist.addNoteCalls[i] <= 1
            /\ Cardinality(NotesWithId(notes, i)) <= 1
            /\ \A t \in Tasks :
                  (Started(t) /\ tasks[t].card.id = i) =>
                      /\ ~Raised(t)
                      /\ (tasks[t].pc = "addNote" => hist.finished[i] = 0)
                      /\ SendsOf(tasks[t].trace, "addNote")
                            + SendsOf(tasks[t].trace, "updateNote") <= 1
            /\ ((\A t \in Tasks : ~Running(t)) /\ hist.finished[i] >= 1) =>
                  /\ hist.addNoteCalls[i] = 1
                  /\ hist.updateNoteCalls[i] = hist.finished[i] - 1
                  /\ Cardinality(NotesWithId(notes, i)) = 1

\* C1 witness: a second call for id x, with edited text and another deck,
\* has updated the note the first call created
C1_Witness ==
    /\ hist.faults = 0
    /\ hist.notes0 = <<>>
    /\ hist.finished["x"] >= 2
    /\ hist.updateNoteCalls["x"] >= 1
    /\ Returned(1)
    /\ Len(notes) = 1
    /\ notes[1].fields["question"] = markdown_to_html("q2")
    /\ notes[1].deck = "A"

\* C2: when findNotes answers with more than one note for the card's id the
\* call raises, it has sent neither addNote nor updateNote, and the remote
\* notes stay as they are.
DuplicateFound(t) ==
    /\ tasks[t].note_ids # Nothing
    /\ Len(tasks[t].note_ids[1]) > 1

C2_DuplicateReported ==
    /\ [](\A t \in Tasks :
            DuplicateFound(t) =>
                /\ Raised(t)
                /\ tasks[t].exc[1].msg = "Found multiple notes"
                /\ SendsOf(tasks[t].trace, "addNote") = 0
                /\ SendsOf(tasks[t].trace, "updateNote") = 0)
    /\ [][(\A t \in Tasks : DuplicateFound(t)' => notes' = notes)]_vars

C2_Witness ==
    /\ DuplicateFound(1)
    /\ Raised(1)
    /\ Len(notes) = 2
    /\ hist.finished["x"] = 1

\* C3: no call ever changes the comments field of a remote note (nor its id
\* field or obsidian_url), and an updateNote request names the question and
\* answer fields only.
C3_CommentsKept ==
    /\ \A n \in 1..Len(hist.notes0) :
          /\ notes[n].fields["comments"] = hist.notes0[n].fields["comments"]
          /\ notes[n].fields["id"] = hist.notes0[n].fields["id"]
          /\ notes[n].fields["obsidian_url"] = hist.notes0[n].fields["obsidian_url"]
    /\ \A t \in Tasks :
          tasks[t].pc = "updateNote" =>
              /\ DOMAIN tasks[t].req.params.note.fields = {"question", "answer"}
              /\ DOMAIN tasks[t].req.params.note = {"id", "fields", "tags"}

\* C3 witness: the note a human commented was updated, text and tags, and
\* still carries the comment
C3_Witness ==
    /\ Len(hist.notes0) = 1
    /\ Len(notes) = 1
    /\ notes[1].fields["question"] = markdown_to_html("q2")
    /\ notes[1].tags = <<"t">>
    /\ notes[1].fields["comments"] = "human"
    /\ Returned(1)

\* C4: the events of one call are ordered deck step, lookup, write; a step
\* is sent only after the step before it has returned, and nothing is sent
\* after a failure.
Rank(e) ==
    CASE e = <<"send", "deckNames">> -> 1
      [] e = <<"return", "deckNames">> -> 2
      [] e = <<"send", "createDeck">> -> 3
      [] e = <<"return", "createDeck">> -> 4
      [] e = <<"return", "ensure_deck_created">> -> 5
      [] e = <<"send", "findNotes">> -> 6
      [] e = <<"return", "findNotes">> -> 7
      [] e \in {<<"send", "addNote">>, <<"send", "updateNote">>} -> 8
      [] e \in {<<"return", "addNote">>, <<"return", "updateNote">>} -> 9
      [] e = <<"return", "create_or_update_card">> -> 10
      [] OTHER -> 11

Before(trace, k, kind, what) == \E j \in 1..(k - 1) : trace[j] = <<kind, what>>

OrderedTrace(trace) ==
    /\ \A k \in 1..(Len(trace) - 1) : Rank(trace[k]) <= Rank(trace[k + 1])
    /\ \A k \in 1..Len(trace) :
          /\ trace[k][1] = "raise" => k = Len(trace)
          /\ trace[k] = <<"send", "createDeck">> =>
                (Before(trace, k, "send", "deckNames")
                    => Before(trace, k, "return", "deckNames"))
          /\ trace[k] = <<"send", "findNotes">> =>
                /\ Before(trace, k, "return", "ensure_deck_created")
                /\ (Before(trace, k, "send", "createDeck")
                        => Before(trace, k, "return", "createDeck"))
          /\ (trace[k][1] = "send" /\ trace[k][2] \in {"addNote", "updateNote"}) =>
                Before(trace, k, "return", "findNotes")
    /\ SendsOf(trace, "addNote") = 0 \/ SendsOf(trace, "updateNote") = 0

C4_StepsInOrder == \A t \in Tasks : OrderedTrace(tasks[t].trace)

\* C4 witness: a call whose deck step failed after createDeck was sent, with
\* nothing sent after the failure
C4_Witness ==
    /\ Raised(1)
    /\ tasks[1].failed_at = "createDeck"
    /\ SendsOf(tasks[1].trace, "deckNames") >= 1
    /\ SendsOf(tasks[1].trace, "createDeck") = max_retries
    /\ SendsOf(tasks[1].trace, "findNotes") = 0

\* C5: one send_request makes at most max_retries attempts; a failed attempt
\* is followed by another while attempts remain; after the first successful
\* attempt no further attempt is made; and when every attempt failed, the
\* error raised is the error of the last attempt.
ReturnedFrom(trace, s) == Positions(trace, "return", s)

C5_BoundedRetries ==
    \A t \in Tasks :
        Started(t) =>
            /\ \A s \in Sites :
                  /\ SendsOf(tasks[t].trace, s) <= max_retries
                  /\ \A r \in ReturnedFrom(tasks[t].trace, s) :
                        \A k \in Positions(tasks[t].trace, "send", s) : k < r
            /\ Running(t) =>
                  /\ tasks[t].attempt < max_retries
                  /\ SendsOf(tasks[t].trace, tasks[t].pc) =
                        tasks[t].attempt + (IF tasks[t].net = "sleep" THEN 0 ELSE 1)
                  /\ tasks[t].net = "sleep" =>
                        /\ tasks[t].last_exception # Nothing
                        /\ tasks[t].last_exception[1].attempt = tasks[t].attempt - 1
            /\ (Raised(t) /\ tasks[t].exc[1].msg # "Found multiple notes") =>
                  /\ SendsOf(tasks[t].trace, tasks[t].failed_at) = max_retries
                  /\ tasks[t].exc[1].attempt = max_retries - 1
                  /\ tasks[t].exc = tasks[t].last_exception

\* C5 witness: a request failed max_retries times and the last attempt's
\* error reached the caller
C5_Witness ==
    /\ Raised(1)
    /\ tasks[1].failed_at = "findNotes"
    /\ SendsOf(tasks[1].trace, "findNotes") = max_retries
    /\ tasks[1].exc[1].attempt = max_retries - 1
    /\ tasks[1].exc[1].msg = "Request timed out"

\* Messages of the exceptions that _make_request raises for the transport
TransportErrors == {"Failed to connect to Anki", "Request timed out"}
IsProtocolViolation(msg) ==
    msg \notin TransportErrors \cup {"Found multiple notes"}

\* C6 (as claimed): a response that violates the protocol is surfaced at
\* once: the request it answers is attempted exactly once.
C6_ViolationNotRetried ==
    \A t \in Tasks :
        (/\ Started(t)
         /\ tasks[t].last_exception # Nothing
         /\ IsProtocolViolation(tasks[t].last_exception[1].msg)) =>
            /\ Raised(t)
            /\ SendsOf(tasks[t].trace, tasks[t].failed_at) = 1

\* C6 (amended): a response that violates the protocol is handled like any
\* failed attempt: it is retried while attempts remain, and it reaches the
\* caller only as the error of the last of max_retries attempts.
C6_ViolationRetried ==
    \A t \in Tasks :
        /\ (Raised(t) /\ IsProtocolViolation(tasks[t].exc[1].msg)) =>
              /\ tasks[t].exc[1].attempt = max_retries - 1
              /\ SendsOf(tasks[t].trace, tasks[t].failed_at) = max_retries
        /\ (/\ Running(t)
            /\ tasks[t].last_exception # Nothing
            /\ IsProtocolViolation(tasks[t].last_exception[1].msg)) =>
              /\ tasks[t].last_exception[1].attempt < max_retries - 1
              /\ tasks[t].attempt = tasks[t].last_exception[1].attempt + 1

\* C6 witness: a server error answered every attempt and was raised after
\* the last one
C6_Witness ==
    /\ Raised(1)
    /\ tasks[1].exc[1].msg = "internal error"
    /\ tasks[1].exc[1].attempt = max_retries - 1
    /\ SendsOf(tasks[1].trace, tasks[1].failed_at) = max_retries

\* C7: a response is accepted exactly when its fields are result and error
\* and error is null; a rejected response returns nothing to the call site.
WellFormed(r) == DOMAIN r = {"result", "error"} /\ r["error"] = None

C7_ValidateIff ==
    \A t \in Tasks :
        tasks[t].validated # Nothing =>
            /\ tasks[t].accepted <=> WellFormed(tasks[t].validated[1])
            /\ ~tasks[t].accepted =>
                  /\ Running(t) \/ Raised(t)
                  /\ ReturnedFrom(tasks[t].trace,
                        IF Raised(t) THEN tasks[t].failed_at ELSE tasks[t].pc) = {}

\* C7 witness: a response with result, a null error and one more field was
\* rejected
C7_Witness ==
    /\ tasks[1].validated # Nothing
    /\ DOMAIN tasks[1].validated[1] = {"result", "error", "extra"}
    /\ tasks[1].validated[1]["error"] = None
    /\ ~tasks[1].accepted
    /\ tasks[1].net = "sleep"

\* C8: an attempt that repeats a request the remote has already applied
\* leaves decks and notes as they are, and the notes carrying one id never
\* become more than one (or more than there were before the run).
Max(a, b) == IF a >= b THEN a ELSE b

C8_RetrySafe ==
    /\ [][\A t \in Tasks :
            (/\ tasks[t].net = "wait"
             /\ tasks[t].applied
             /\ tasks'[t].net = "answered") =>
                (decks' = decks /\ notes' = notes)]_vars
    /\ [](\A i \in CardIds :
            Cardinality(NotesWithId(notes, i)) <=
                Max(1, Cardinality(NotesWithId(hist.notes0, i))))

\* C8 witness: addNote was applied, its answer was lost, and the retry was
\* refused as a duplicate
C8_Witness ==
    /\ tasks[1].pc = "addNote"
    /\ tasks[1].applied
    /\ tasks[1].attempt >= 1
    /\ tasks[1].net = "answered"
    /\ DOMAIN tasks[1].resp = {"result", "error"}
    /\ tasks[1].resp["error"] = "cannot create note because it is a duplicate"

\* C9 (as claimed): createDeck for one deck name is sent by at most one of
\* the calls of a run.
C9_OneCreatorPerDeck ==
    \A d \in DeckNames : Cardinality(hist.creators[d]) <= 1

\* C10: a call for a deck that an earlier ensure_deck_created has returned
\* for gets False and sends no createDeck; and createDeck is never sent for a
\* deck name the remote has listed.
C10_DeckCache ==
    \A t \in Tasks :
        Started(t) =>
            /\ tasks[t].pre_ensured =>
                  /\ tasks[t].deck_ret = Some(FALSE)
                  /\ SendsOf(tasks[t].trace, "createDeck") = 0
            /\ tasks[t].pc = "createDeck" =>
                  tasks[t].card.deck_name \notin hist.listed

\* C10 witness: a second call for a deck the first call created
C10_Witness ==
    /\ Started(1)
    /\ tasks[1].pre_ensured
    /\ tasks[1].deck_ret = Some(FALSE)
    /\ hist.creators[tasks[1].card.deck_name] # {}
    /\ hist.listed # {}

\* ======================================================= claims, main.py
RunStarted == run.pc \in {"cards", "done", "raised"}
RunEnded == run.pc \in {"done", "raised"}
BodyLines == remove_front_matter(run.start_file)

\* C11 (as claimed): a run of process_cards ends by returning a success
\* count after it has attempted every card of the list, whatever the remote
\* did with the requests of a card.
C11_EveryCardAttempted ==
    RunEnded =>
        /\ run.pc = "done"
        /\ Len(run.note_ids) = Len(run.cards)
        /\ run.success_count =
              Cardinality({i \in 1..Len(run.note_ids) : run.note_ids[i] # Nothing})

AnswerPositions == {i \in 1..Len(BodyLines) : BodyLines[i].kind = "Answer"}
CardPosition(c) ==
    CHOOSE a \in AnswerPositions :
        Cardinality({b \in AnswerPositions : b <= a}) = c
\* The last line of a kind strictly between two positions; 0 when none
LastOf(kind, after, before) ==
    LET found == {p \in (after + 1)..(before - 1) : BodyLines[p].kind = kind}
    IN  IF found = {} THEN 0
        ELSE CHOOSE p \in found : \A q \in found : q <= p
SegmentAt(p) == IF p = 0 THEN <<>> ELSE <<BodyLines[p].text>>
\* The card just synced, and the deck its createDeck request named
SyncedCard == run.idx - 1
DeckCardSynced ==
    /\ run.family = "deck"
    /\ run.pc \in {"cards", "done"}
    /\ SyncedCard >= 1
    /\ run.sent # <<>>
SyncedDeck == run.sent[1].deck

\* C13 (as claimed): the deck a card is synced to is the root deck name, then
\* the level-1 heading in scope, then the level-2 heading in scope since
\* that level-1 heading, a segment being left out when no heading of the
\* level is in scope.
C13_DeckFromHeadings ==
    DeckCardSynced =>
        LET a == CardPosition(SyncedCard)
            h1 == LastOf("h1", 0, a)
            h2 == LastOf("h2", h1, a)
        IN  SyncedDeck = <<RootDeck>> \o SegmentAt(h1) \o SegmentAt(h2)

\* C13 (amended): the deck a card is synced to has three segments always:
\* the root deck name, the title of the file's front matter (Untitled when
\* it has none) and the last level-2 heading above the card (General when
\* there is none); level-1 headings play no part, and every request of the
\* card that names a deck names this one.
FileTitle ==
    LET entries == {k \in 1..Len(run.start_file) :
                        run.start_file[k].kind = "title"}
    IN  IF entries = {} THEN "Untitled"
        ELSE run.start_file[CHOOSE k \in entries : TRUE].text
C13_DeckFromTitleAndHeading2 ==
    DeckCardSynced =>
        LET a == CardPosition(SyncedCard)
            h2 == LastOf("h2", 0, a)
            deck == <<RootDeck, FileTitle,
                      IF h2 = 0 THEN "General" ELSE BodyLines[h2].text>>
        IN  /\ SyncedDeck = deck
            /\ \A k \in 1..Len(run.sent) :
                  run.sent[k].action \in {"createDeck", "addNote"}
                      => run.sent[k].deck = deck

\* C13 witness: a card under '# A', '## B' in a file titled T went to
\* root::T::B
C13_Witness ==
    /\ DeckCardSynced
    /\ run.pc = "done"
    /\ FileTitle = "T"
    /\ LastOf("h1", 0, CardPosition(SyncedCard)) > 0
    /\ SyncedDeck = <<"root", "T", "B">>
    /\ \E k \in 1..Len(run.sent) : run.sent[k].action = "addNote"

\* A block that extract_code_block_content read: its opening fence is the
\* first fence line at or after the position the call started at.
FencesFrom(at) ==
    {p \in at..Len(BodyLines) : BodyLines[p].kind = "fence"}
OpeningFence(b) ==
    CHOOSE o \in FencesFrom(b.at + 1) : \A p \in FencesFrom(b.at + 1) : o <= p
BlockOpened(b) ==
    /\ FencesFrom(b.at + 1) # {}
    /\ OpeningFence(b) < Len(BodyLines)
\* The end of a block whose closing lines are the set closers: the first of
\* them, or the position after the last line when there is none
EndOf(closers) ==
    IF closers = {} THEN Len(BodyLines) + 1
    ELSE CHOOSE c \in closers : \A p \in closers : c <= p
BodyBetween(o, c) ==
    IF c = o + 1 THEN Nothing
    ELSE Some(strip(SubSeq(BodyLines, o + 1, c - 1)))
BlocksRead == {run.blocks[k] : k \in 1..Len(run.blocks)}

\* C14 (as claimed): a block opened with a fence of N backticks ends at the
\* first later line that is exactly N backticks; every other fence line
\* before it, narrower, wider or with text after the backticks, is part of
\* the body.
C14_ExactFenceCloses ==
    RunStarted =>
        \A b \in BlocksRead :
            BlockOpened(b) =>
                LET o == OpeningFence(b)
                    c == EndOf({p \in (o + 1)..Len(BodyLines) :
                                  BodyLines[p] = Fence(BodyLines[o].n, "")})
                IN  /\ b.i = IF c > Len(BodyLines) THEN c ELSE c + 1
                    /\ b.content = BodyBetween(o, c)

HeadingsOf(kind) == {p \in 1..Len(BodyLines) : BodyLines[p].kind = kind}
HasOwnBlock(p) ==
    /\ FencesFrom(p + 1) # {}
    /\ LET o == OpeningFence([at |-> p])
       IN  /\ o < Len(BodyLines)
           /\ \A j \in (p + 1)..(o - 1) : ~is_heading(BodyLines[j])
OwnBlock(p) ==
    IF ~HasOwnBlock(p) THEN Nothing
    ELSE LET o == OpeningFence([at |-> p])
             c == EndOf({j \in (o + 1)..Len(BodyLines) :
                            /\ BodyLines[j].kind = "fence"
                            /\ BodyLines[j].n >= BodyLines[o].n})
         IN  BodyBetween(o, c)
NonEmptyTrimmed(content) ==
    /\ content # <<>>
    /\ content[1].kind # "blank"
    /\ content[Len(content)].kind # "blank"
CardsEmitted == {run.cards[k] : k \in 1..Len(run.cards)}

\* C16 (as claimed): the question and the answer of every emitted card are
\* non-empty after trimming, and they are the block of a Question heading
\* and the block of a later Answer heading: a heading whose block is
\* missing, empty or blank gives no card.
C16_OnlyCompletePairs ==
    RunStarted =>
        \A card \in CardsEmitted :
            /\ NonEmptyTrimmed(card.raw_question)
            /\ NonEmptyTrimmed(card.raw_answer)
            /\ \E q \in HeadingsOf("Question"), a \in HeadingsOf("Answer") :
                  /\ q < a
                  /\ OwnBlock(q) = Some(card.raw_question)
                  /\ OwnBlock(a) = Some(card.raw_answer)

\* C17 (as claimed): every emitted card is the card of a level-3 heading of
\* its own, so the cards emitted are never more than the level-3 headings
\* of the file, and the headings that emitted none are the dropped ones.
C17_OneCardPerHeading3 ==
    RunStarted =>
        /\ Len(run.cards) <= Cardinality(HeadingsOf("h3"))
        /\ \A card \in CardsEmitted : card.heading3_text # Nothing

\* The level-3 heading in scope at position p (0 when none), and the id
\* markers of the part of the file that a heading opens: from the heading,
\* or from the start of the file, to the next level-3 heading
Heading3Over(p) == LastOf("h3", 0, p)
IdsUnder(h) ==
    {BodyLines[j].n : j \in {p \in (h + 1)..Len(BodyLines) :
                                /\ BodyLines[p].kind = "id"
                                /\ Heading3Over(p) = h}}

\* C18 (as claimed): the question and the answer of an emitted card stand
\* under the same level-3 heading, the card's title is the text of that
\* heading, and its id, when it has one, is an id marker under that heading.
C18_PairUnderOneHeading ==
    RunStarted =>
        \A card \in CardsEmitted :
            \A q \in HeadingsOf("Question"), a \in HeadingsOf("Answer") :
                (/\ q < a
                 /\ OwnBlock(q) = Some(card.raw_question)
                 /\ OwnBlock(a) = Some(card.raw_answer)) =>
                    LET h == Heading3Over(q)
                    IN  /\ Heading3Over(a) = h
                        /\ card.heading3_text = IF h = 0 THEN Nothing
                                                ELSE Some(BodyLines[h].text)
                        /\ card.anki_id # Nothing =>
                                card.anki_id[1] \in IdsUnder(h)

\* The level-3 headings of the file as it is now, and the id markers that
\* insert_id_in_markdown finds under the heading at position h
Heading3sOfFile == {h \in 1..Len(file) : file[h].kind = "h3"}
MarkersUnder(h) ==
    {i \in IdRegion(file, h + 1) : file[i].kind = "id"}

\* C19: when the remote answers every request, the pass that follows a
\* completed pass over the same file leaves the file as the first pass left
\* it, at every step and at its end; and no level-3 heading ever has more
\* than one id marker under it.
C19_SecondPassWritesNothing ==
    /\ (run.n >= 2 /\ run.faults = 0) =>
          /\ Len(run.end_files) >= 1
          /\ file = run.end_files[1]
          /\ \A k \in 1..Len(run.end_files) : run.end_files[k] = run.end_files[1]
    /\ \A h \in Heading3sOfFile : Cardinality(MarkersUnder(h)) <= 1

\* C19 witness: the first pass wrote the ids of two new notes under their
\* headings and the second pass, now complete, left the file as it was
C19_Witness ==
    /\ run.n = 2
    /\ run.pc = "done"
    /\ run.faults = 0
    /\ Len(run.cards) = 2
    /\ Len(run.end_files) = 2
    /\ Len(file) = Len(run.file0) + 2
    /\ file = run.end_files[1]
    /\ run.note_ids = <<Some(11), Some(12)>>

\* C20 (as claimed, for files whose cards all stand under a level-3
\* heading): after a run in which the remote answered every request and
\* every card was synced, parsing the file again gives as many cards as before, and the i-th of them carries the id
\* that the run returned for the i-th card.
AllCardsSynced ==
    /\ run.pc = "done"
    /\ run.faults = 0
    /\ ~run.dry_run
    /\ run.cards # <<>>
    /\ Len(run.note_ids) = Len(run.cards)
    /\ \A i \in 1..Len(run.cards) :
          /\ run.note_ids[i] # Nothing
          /\ run.cards[i].heading3_text # Nothing
C20_ReparseGivesWrittenIds ==
    AllCardsSynced =>
        LET again == parse_markdown_file(file, FALSE).cards
        IN  /\ Len(again) = Len(run.cards)
            /\ \A i \in 1..Len(again) :
                  /\ again[i].anki_id = run.note_ids[i]
                  /\ again[i].raw_question = run.cards[i].raw_question

\* The heading texts a call of insert_id_in_markdown is given
TextsTried == {"C", "D", "Unknown heading"}
\* The place of the first level-3 heading of the file with text t (0 when
\* there is none), and whether an id marker stands under the heading at h,
\* before the next Question, level-3 or level-2 heading
FirstHeading3(t) ==
    IF \E h \in 1..Len(file) : file[h] = H3(t)
    THEN CHOOSE h \in 1..Len(file) :
            /\ file[h] = H3(t)
            /\ \A g \in 1..(h - 1) : file[g] # H3(t)
    ELSE 0
HasMarker(h) ==
    \E i \in (h + 1)..Len(file) :
        /\ file[i].kind = "id"
        /\ \A j \in (h + 1)..(i - 1) :
              file[j].kind \notin {"Question", "h3", "h2"}

RECURSIVE Markers(_)
Markers(f) ==
    IF f = <<>> THEN <<>>
    ELSE (IF f[1].kind = "id" THEN <<f[1].n>> ELSE <<>>) \o Markers(Tail(f))
Without(s, j) == SubSeq(s, 1, j - 1) \o SubSeq(s, j + 1, Len(s))
\* Every marker kept its value: nothing changed, or one marker was added
MarkersKept(m, m2) ==
    \/ m2 = m
    \/ \E j \in 1..Len(m2) : Without(m2, j) = m
FindNotesSent(sent) ==
    \E k \in 1..Len(sent) : sent[k].action = "findNotes"

\* C22 (as claimed): whatever the remote answers, no step of any run
\* changes the value of an id marker that is in the file.
C22_MarkerNeverReplaced ==
    [][MarkersKept(Markers(file), Markers(file'))]_vars

\* C22 (amended): a step changes the value of an id marker only when the
\* update of the card's note was answered "Note was not found" (the search
\* by content follows it): then exactly one marker changes, the one that
\* held the card's id, and it gets the id of the note found by content or
\* of the note added anew; in every other step the markers keep their
\* values.
C22_MarkerReplacedOnlyWhenNoteLost ==
    [][LET m == Markers(file)
           m2 == Markers(file')
       IN  \/ MarkersKept(m, m2)
           \/ /\ run.pc = "cards"
              /\ FindNotesSent(run'.sent)
              /\ run.cards[run.idx].anki_id # Nothing
              /\ Len(m2) = Len(m)
              /\ \E j \in 1..Len(m) :
                    /\ m[j] = run.cards[run.idx].anki_id[1]
                    /\ m2[j] \in MatchingNotes \cup {run.next_id}
                    /\ m2 = [m EXCEPT ![j] = m2[j]]]_vars

\* C22 witness: the note of a card with id 1 was lost, a new note was added
\* and its id took the place of the marker
C22_Witness ==
    /\ run.pc = "done"
    /\ run.note_ids = <<Some(11)>>
    /\ FindNotesSent(run.sent)
    /\ Markers(run.start_file) = <<1>>
    /\ Markers(file) = <<11>>

\* C23 (as claimed): the cards parsed from one file that carry an id carry
\* pairwise different ids, and a run never syncs two cards under one id.
C23_DistinctIds ==
    RunStarted =>
        /\ \A i \in 1..Len(run.cards), j \in 1..Len(run.cards) :
              (i < j /\ run.cards[i].anki_id # Nothing) =>
                    run.cards[i].anki_id # run.cards[j].anki_id
        /\ \A i \in 1..Len(run.note_ids), j \in 1..Len(run.note_ids) :
              (i < j /\ run.note_ids[i] # Nothing) =>
                    run.note_ids[i] # run.note_ids[j]

\* ==================================================== claims, options
\* C24: in a dry run no request is posted for any card, with or without an
\* id, and the file stays as it was when the run began; every card counts
\* as processed, under its own id or under the id of a dry run.
C24_DryRunTouchesNothing ==
    (RunStarted /\ run.dry_run) =>
        /\ run.sent = <<>>
        /\ file = run.start_file
        /\ file = run.file0
        /\ run.pc # "raised"
        /\ \A i \in 1..Len(run.note_ids) :
              run.note_ids[i] =
                  IF run.cards[i].anki_id # Nothing THEN run.cards[i].anki_id
                  ELSE Some(DryRunId)

\* C24 witness: a dry run over a card with an id marker and a card without
\* one has ended
C24_Witness ==
    /\ run.dry_run
    /\ run.pc = "done"
    /\ Len(run.cards) = 2
    /\ run.cards[1].anki_id = Some(1)
    /\ run.cards[2].anki_id = Nothing
    /\ run.cards[2].heading3_text # Nothing
    /\ run.success_count = 2
    /\ file = run.file0

\* The note writes among the requests posted for the card last synced
NoteWrites ==
    {k \in 1..Len(run.sent) :
        run.sent[k].action \in {"addNote", "updateNoteFields"}}

\* C25 (as claimed): the sync of one card posts at most one note write,
\* addNote or updateNoteFields.
C25_OneWritePerCard ==
    RunStarted => Cardinality(NoteWrites) <= 1

\* C25 (amended): the sync of one card posts one note write at most, except
\* when the update of the card's note is answered "Note was not found":
\* then the search by content follows and after it one more write, the
\* update of the note found or addNote; never more than two writes, and
\* never two without the search between them.
C25_SecondWriteOnlyWhenNoteLost ==
    RunStarted =>
        /\ Cardinality(NoteWrites) <= 2
        /\ \A j \in NoteWrites, k \in NoteWrites :
              j < k =>
                /\ run.sent[j].action = "updateNoteFields"
                /\ \E f \in (j + 1)..(k - 1) : run.sent[f].action = "findNotes"

\* C25 witness: the update of a card's note was answered not found, no
\* note matched its content, and the card was added as a new note
C25_Witness ==
    /\ run.pc = "done"
    /\ Len(run.sent) = 4
    /\ run.sent[2] = Req("updateNoteFields", <<>>, Some(1))
    /\ run.sent[3].action = "findNotes"
    /\ run.sent[4].action = "addNote"
    /\ run.note_ids = <<Some(11)>>

\* C26: a Question block and an Answer block are each part of one card at
\* most: no two emitted cards have the same question or the same answer,
\* and the cards are no more than the Question headings and no more than
\* the Answer headings of the file.
C26_PairEmittedOnce ==
    RunStarted =>
        /\ \A i \in 1..Len(run.cards), j \in 1..Len(run.cards) :
              i < j =>
                /\ run.cards[i].raw_question # run.cards[j].raw_question
                /\ run.cards[i].raw_answer # run.cards[j].raw_answer
        /\ Len(run.cards) <= Cardinality(HeadingsOf("Question"))
        /\ Len(run.cards) <= Cardinality(HeadingsOf("Answer"))

\* C26 witness: after the card of a Question/Answer pair came a level-3
\* heading and a second Answer block without a new Question, and the run
\* ended with the one card
C26_Witness ==
    /\ run.pc = "done"
    /\ Len(run.cards) = 1
    /\ run.cards[1].raw_question = QBody(1)
    /\ run.cards[1].raw_answer = ABody(1)
    /\ Cardinality(HeadingsOf("Question")) = 1
    /\ Cardinality(HeadingsOf("Answer")) = 2
    /\ \E a \in HeadingsOf("Answer") :
          /\ OwnBlock(a) = Some(ABody(2))
          /\ Heading3Over(a) > 0
          /\ BodyLines[Heading3Over(a)] = H3("D")

\* ==================================================== claims, options
\* The cards of the file the run began with, and how many of them a run
\* with this limit is to process
AllCards == parse_markdown_file(run.start_file, run.from_scratch).cards
ToProcess ==
    IF run.limit > 0 /\ run.limit < Len(AllCards) THEN run.limit
    ELSE Len(AllCards)
\* The place in the file the run began with of the last line of a card's
\* answer, and the lines of a file after place p counted from the end
LastLineOf(card) ==
    CHOOSE p \in 1..Len(run.start_file) :
        run.start_file[p] = card.raw_answer[Len(card.raw_answer)]
LinesAfter(f, n) == SubSeq(f, Len(f) - n + 1, Len(f))

\* C28: a run with --limit N, N > 0, works on the first min(N, number of
\* cards) cards of the file in their order and ends after the last of them;
\* without a limit it works on all cards.  No request names the note of a
\* later card, and the lines of the file after the last processed card stay
\* as they were.
C28_LimitCutsTheList ==
    RunStarted =>
        /\ run.cards = SubSeq(AllCards, 1, ToProcess)
        /\ run.idx <= ToProcess + 1
        /\ run.pc = "done" => Len(run.note_ids) = ToProcess
        /\ \A k \in 1..Len(run.sent) :
              run.sent[k].action = "updateNoteFields" =>
                    run.sent[k].note = run.cards[run.idx - 1].anki_id
        /\ IF ToProcess = 0 THEN file = run.start_file
           ELSE LET n == Len(run.start_file) - LastLineOf(AllCards[ToProcess])
                IN  LinesAfter(file, n) = LinesAfter(run.start_file, n)

\* C28 witness: a run with --limit 1 over a file of two cards, the second
\* with an id marker, has ended after the first card
C28_Witness ==
    /\ run.pc = "done"
    /\ run.limit = 1
    /\ ~run.dry_run
    /\ Len(AllCards) = 2
    /\ Len(run.note_ids) = 1
    /\ AllCards[2].anki_id = Some(2)
    /\ file # run.start_file

\* A run from scratch without a limit that synced every card, over a file in
\* which every card stands under a level-3 heading of its own and no two
\* headings have one text
DistinctHeadings(f) ==
    \A g \in 1..Len(f), h \in 1..Len(f) :
        (g < h /\ f[g].kind = "h3") => f[g] # f[h]
FromScratchDone ==
    /\ run.pc = "done"
    /\ run.from_scratch
    /\ ~run.dry_run
    /\ run.limit = 0
    /\ run.cards # <<>>
    /\ DistinctHeadings(run.start_file)
    /\ Cardinality({h \in 1..Len(run.start_file) :
                        run.start_file[h].kind = "h3"}) = Len(run.cards)
    /\ \A i \in 1..Len(run.cards) :
          /\ run.cards[i].heading3_text # Nothing
          /\ run.note_ids[i] # Nothing

\* C29 (as claimed): in a run from scratch every card is parsed without an
\* id and sent as addNote, and when the run has ended the id that the file
\* gives each card is the id of the note the run created for it.
C29_FromScratchRewritesIds ==
    /\ (RunStarted /\ run.from_scratch) =>
          /\ \A i \in 1..Len(run.cards) : run.cards[i].anki_id = Nothing
          /\ \A k \in 1..Len(run.sent) :
                run.sent[k].action \in {"createDeck", "addNote"}
    /\ FromScratchDone =>
          LET again == parse_markdown_file(file, FALSE).cards
          IN  /\ Len(again) = Len(run.cards)
              /\ \A i \in 1..Len(again) : again[i].anki_id = run.note_ids[i]

\* C27: when the remote is reachable and answers the deck listing,
\* list_deck_names returns a text that lists every deck name the remote has,
\* one per line and sorted; the failure message is returned only when the
\* remote cannot be reached or answers with an error.
ToolReturned == tool.text # Nothing
OrderOf(name) == CHOOSE i \in 1..Len(NameOrder) : NameOrder[i] = name
ListsEveryDeckSorted(text, dk) ==
    /\ Len(text) >= 2
    /\ text[1] = "# Decks: "
    /\ LET body == SubSeq(text, 2, Len(text))
       IN  IF dk = {} THEN body = <<"">>
           ELSE /\ Len(body) = Cardinality(dk)
                /\ {body[i] : i \in 1..Len(body)} = {<<"- ", d>> : d \in dk}
                /\ \A i, j \in 1..Len(body) :
                      i < j => OrderOf(body[i][2]) < OrderOf(body[j][2])
C27_ListsDecksWhenReachable ==
    ToolReturned =>
        /\ tool.up => ListsEveryDeckSorted(tool.text[1], decks)
        /\ tool.text[1] = FailText => ~tool.up

\* C30: whenever ensure_model_template_exists returns without error, the
\* ObsidianCard note type exists on the remote: createModel is sent exactly
\* when the answer of modelNames does not contain ObsidianCard, an empty
\* answer included, and never when it is already there.
ModelCheckReturned == tool.pc = "returned"
CreateModelSent == \E k \in 1..Len(tool.sent) : tool.sent[k] = "createModel"
C30_ModelExistsAfterReturn ==
    ModelCheckReturned =>
        /\ "ObsidianCard" \in tool.models
        /\ CreateModelSent <=> "ObsidianCard" \notin tool.listed[1]

\* The first heading after position p, the position after the last line
\* when none follows
NextHeading(p) ==
    EndOf({j \in (p + 1)..Len(BodyLines) : is_heading(BodyLines[j])})
QuestionsRead == {b \in BlocksRead : b.heading = "Question"}

\* C33 (as claimed): the body of a question comes from a fenced block
\* between its Question heading and the next heading: when no fence follows
\* the Question heading before the next heading, the question is empty and
\* the parser goes on at that heading at the latest, so that it consumes no
\* heading and no block of a later section.
C33_QuestionFromOwnBlock ==
    RunStarted =>
        \A b \in QuestionsRead :
            FencesFrom(b.at + 1) \cap (b.at + 1)..(NextHeading(b.at) - 1) = {}
                => /\ b.content = Nothing
                   /\ b.i <= NextHeading(b.at)

\* The scan of a file has returned; the blocks its iterations read
ScanReturned == scan.pc = "returned"
ScanBlocks == {scan.ps.blocks[k] : k \in 1..Len(scan.ps.blocks)}
\* The block read for the heading at b.at was closed: the line before the
\* one the scan went on at is a fence line after the opening fence, at
\* least as wide as it
ClosedByFence(b) ==
    LET fences == {p \in (b.at + 1)..Len(scan.lines) :
                      scan.lines[p].kind = "fence"}
    IN  /\ fences # {}
        /\ LET o == CHOOSE p \in fences : \A r \in fences : p <= r
           IN  /\ b.i - 1 > o
               /\ scan.lines[b.i - 1].kind = "fence"
               /\ scan.lines[b.i - 1].n >= scan.lines[o].n

\* C34 (as claimed): a card is emitted only when its question block and its
\* answer block were both closed by a closing fence line: a block that is
\* still open at the end of the input gives no body to an emitted card.
C34_CardsFromClosedBlocks ==
    ScanReturned =>
        \A k \in 1..Len(scan.cards) :
            \E qb \in ScanBlocks, ab \in ScanBlocks :
                /\ qb.heading = "Question" /\ ab.heading = "Answer"
                /\ qb.at < ab.at
                /\ qb.content = Some(scan.cards[k].raw_question)
                /\ ab.content = Some(scan.cards[k].raw_answer)
                /\ ClosedByFence(qb)
                /\ ClosedByFence(ab)

\* C37: the scanning loop of parse_markdown_file ends on every input: each
\* iteration moves the line index forward by one at least, the index never
\* passes the position after the last line, and so the iterations are no
\* more than the lines, whatever headings, id markers and closed or open
\* fences the text holds.
C37_ScanAdvances ==
    scan.pc \in {"loop", "returned"} =>
        /\ scan.ps.i <= Len(scan.lines) + 1
        /\ scan.iterations <= Len(scan.lines)
        /\ scan.iterations > 0 => scan.ps.i >= scan.i_before + 1

\* C37 witness: the scan of a text with headings, an id marker and a block
\* that is open at its end has returned, having read several lines in one
\* iteration
C37_Witness ==
    /\ ScanReturned
    /\ scan.iterations >= 3
    /\ scan.iterations < Len(scan.lines)
    /\ scan.lines[Len(scan.lines)].kind = "text"
    /\ \E p \in 1..Len(scan.lines) : scan.lines[p].kind = "id"
    /\ Len(scan.cards) >= 1

\* C32 (as claimed): under every interleaving of the coroutines of one
\* AnkiConnect instance the cache existing_decks only grows: a deck name
\* that is in it, added after a successful createDeck, is never taken out
\* again by the deckNames answer that another coroutine receives later.
C32_CacheOnlyGrows ==
    [][existing_decks \subseteq existing_decks']_vars

RECURSIVE SumOf(_)
SumOf(s) == IF s = <<>> THEN 0 ELSE s[1] + SumOf(Tail(s))
SendCalled == send.pc # "idle"

\* C31: between two attempts send_request waits retry_delay times the
\* number (from 1) of the attempt that has just failed; the waits of a call
\* are fewer than its attempts, so that a call with the default retries
\* waits no more than the sum of these delays over max_retries - 1
\* attempts; and it waits nothing between the last failed attempt and the
\* raise.
C31_BackoffDelays ==
    SendCalled =>
        /\ \A k \in 1..Len(send.slept) : send.slept[k] = retry_delay * k
        /\ Len(send.slept) = send.attempt
        /\ send.pc = "sleep" =>
              /\ send.posted = send.attempt + 1
              /\ send.delay = retry_delay * send.posted
              /\ send.posted < send.retries
        /\ send.retries > 0 => Len(send.slept) <= send.retries - 1
        /\ send.arg = Nothing =>
              SumOf(send.slept) <=
                  SumOf([k \in 1..(max_retries - 1) |-> retry_delay * k])
        /\ send.pc = "raised" =>
              /\ send.posted = send.retries
              /\ Len(send.slept) = send.posted - 1

\* C31 witness: a call with the default retries has failed at every attempt
\* and raised after all the waits it can make
C31_Witness ==
    /\ send.pc = "raised"
    /\ send.arg = Nothing
    /\ send.posted = max_retries
    /\ send.slept = <<retry_delay, 2 * retry_delay>>

\* C36 (as claimed): send_request returns a value only after an answer has
\* passed _validate_response, and raises otherwise: whatever retries the
\* caller passes, 0 included, it never returns without having posted the
\* request, and never returns when no attempt succeeded.
C36_ReturnsOnlyValidated ==
    send.pc = "returned" =>
        /\ send.posted >= 1
        /\ send.validated # Nothing
        /\ _validate_response(send.validated[1]) = None
        /\ send.result = Some(send.validated[1]["result"])

\* C35 (as claimed): insert_card lets no exception out: for every deck
\* name, question and answer it builds a card, runs create_or_update_card
\* and returns 'Successful' when that call returns and a 'Failed to add
\* card due to ...' text when it raises.
InsertCardEnded == tool.inserted # Nothing
C35_InsertCardNeverRaises ==
    InsertCardEnded =>
        LET r == tool.inserted[1]
        IN  /\ ~r.raised
            /\ r.text = IF r.remote = "returned" THEN <<"Successful">>
                        ELSE <<"Failed to add card due to ", r.remote>>

====
